---- MODULE Spec2Model ----
(***************************************************************************)
(* Model of the incremental synchronisation ("actualization") controller   *)
(* of src/trash/run_actualization.py and of the jobs it drives.            *)
(*                                                                         *)
(* Time has two bases, as in the code: `clock` is the real wall clock in   *)
(* hours (datetime.now), and calendar days are derived from it             *)
(* (date.today).  Calendar days are written as ISO strings by the code;    *)
(* here an ISO string 'YYYY-MM-DD' is the triple <<YYYY, MM, DD>> and the  *)
(* string comparison of the code is the lexicographic comparison of the    *)
(* triples.                                                                *)
(***************************************************************************)
EXTENDS Integers, Sequences, FiniteSets, TLC

(***************************************************************************)
(* Bounds of the model.                                                    *)
(***************************************************************************)
\* number of times the wall clock may advance in one behaviour
MaxTicks == 2

(***************************************************************************)
(* Small input sets.                                                       *)
(***************************************************************************)
HoursPerDay == 24
\* the wall clock advances in steps of alternately 29 hours and 1 hour
TickHours(i) == IF i % 2 = 1 THEN 29 ELSE 1
\* the clock value of the initial state: 00:00 of calendar day 1
StartClock == HoursPerDay
\* values of the --delta-time-update argument (hours)
DeltaTimeUpdates == {0, 24, 30}
\* values of the --delta-day argument (days)
DeltaDays == {0, 1}

RouteKeys == {"r1", "r2"}

\* page values a route document can carry: an integer page (>= 1), no page
\* at all (None / absent), or a value int() rejects
PageNone == 0
PageBad == -1
\* the pages of the route listing
ApiPages == {1, 2}
\* pages of the route documents of the initial store
LegacyPages == {PageNone, PageBad, 1}

\* a field that is not set (last_processed_at, last_run_utc)
Absent == -1
\* no document under this route_key
NoDoc == [exists |-> FALSE]

(***************************************************************************)
(* Calendar: date.isoformat() and the comparison of ISO strings.           *)
(***************************************************************************)
\* date.isoformat() of calendar day n; day 1 is 2025-12-01
IsoFormat(n) == IF n >= 1 THEN <<2025, 12, n>> ELSE <<2025, 11, 30 + n>>

\* a <= b on 'YYYY-MM-DD' strings (Python compares strings lexicographically)
StrLeq(a, b) ==
    \/ a[1] < b[1]
    \/ a[1] = b[1] /\ a[2] < b[2]
    \/ a[1] = b[1] /\ a[2] = b[2] /\ a[3] <= b[3]

\* date.today() for a wall-clock value
Today(c) == c \div HoursPerDay

\* _extract_date_str: a stored date that is None gives None, a string gives
\* its first ten characters
NoDate == <<>>
_extract_date_str(value) == IF value = NoDate THEN NoDate ELSE <<value[1], value[2], value[3]>>

\* every calendar day the model can name
AllDays == (-1) .. (Today(StartClock + (MaxTicks + 1) * 29) + 1)

\* sorted(): the ascending sequence of a set of ISO strings
RECURSIVE SortDates(_)
SortDates(S) ==
    IF S = {} THEN <<>>
    ELSE LET m == CHOOSE x \in S : \A y \in S : StrLeq(x, y)
         IN <<m>> \o SortDates(S \ {m})

\* sorted(): the ascending sequence of a set of integers
RECURSIVE SortInts(_)
SortInts(S) ==
    IF S = {} THEN <<>>
    ELSE LET m == CHOOSE x \in S : \A y \in S : x <= y
         IN <<m>> \o SortInts(S \ {m})

SeqToSet(s) == {s[i] : i \in 1 .. Len(s)}

VARIABLES
    clock,          \* real wall clock, hours
    ticks,          \* how often the clock advanced
    api,            \* the external system: per route key, its listing and its dispatches
    routes,         \* Route collection, keyed by route_key
    dispatches,     \* Dispatch collection, per route: the stored state of its dispatches
    meta,           \* the Sync Meta record
    pc,             \* position of the controller run
    delta_time_update, delta_day,   \* arguments of the run
    now_utc,        \* datetime.now() read at the start of the run
    logical_today,  \* ISO string of the run's logical today
    date_page_info, \* the filtered Route State Tracker output of the run
    date_queue,     \* dates still to process, ascending
    cur_date,       \* the date being processed
    page_queue,     \* get_routes invocations still to issue for cur_date
    route_keys,     \* selected routes of cur_date not yet processed
    cur_route,      \* the route in the per-route pipeline
    stage,          \* index into the chain of the job about to run
    \* observation of the run (what the log lines record), each kept until
    \* the next step of the run has been taken
    fetchLog,       \* get_routes invocations issued for cur_date
    detailLog,      \* route keys whose details were fetched for cur_date
    selected,       \* the routes selected in step 3.3 for cur_date
    jobLog,         \* jobs run for cur_route, in order
    processed,      \* dates whose processing finished, in order
    failed,         \* a job of this run failed
    disp,           \* Dispatch collection: the documents whose fields are followed
    sub_col,        \* the sub-status reference table
    job             \* the last enrichment pass run on its own: name, writes, lookup keys

vars == <<clock, ticks, api, routes, dispatches, meta, pc, delta_time_update, delta_day,
          now_utc, logical_today, date_page_info, date_queue, cur_date, page_queue,
          route_keys, cur_route, stage, fetchLog, detailLog, selected, jobLog,
          processed, failed, disp, sub_col, job>>

\* the variables of the enrichment steps
evars == <<disp, sub_col, job>>


(***************************************************************************)
(* The external system (route listing and route detail endpoints).         *)
(***************************************************************************)
\* GET /routes?date=d[&page=p]: the route summaries of date d, of page p or
\* (full scan, p = PageNone) of every page until an empty page is returned.
ApiListing(d, p) ==
    {r \in RouteKeys : /\ api[r].created
                       /\ IsoFormat(api[r].day) = d
                       /\ (p = PageNone \/ api[r].page = p)}

\* GET /routes/:route_number: the payload with the embedded dispatch list,
\* reduced to whether every dispatch of the route is in a terminal state.
fetch_route_details(r) == IF api[r].terminal THEN "terminal" ELSE "open"

(***************************************************************************)
(* Route State Tracker.                                                    *)
(***************************************************************************)
\* int(page) succeeds
IntOk(p) == p >= 1

\* faulty variant of OpenRoutes: the query does not filter on is_closed
OpenRoutes_closed_too(rs) == {r \in RouteKeys : rs[r].exists}

OpenRoutes(rs) == {r \in RouteKeys : rs[r].exists /\ rs[r].is_closed # TRUE}

\* faulty variant of the tracker: a date with a known page is not marked
_get_dates_and_pages_known_wins(rs) ==
    LET dated == {r \in OpenRoutes(rs) : _extract_date_str(rs[r].date) # NoDate}
        of(d) == {r \in dated : _extract_date_str(rs[r].date) = d}
    IN [d \in {_extract_date_str(rs[r].date) : r \in dated} |->
          [pages |-> {rs[r].page : r \in {q \in of(d) : rs[q].page # PageNone /\ IntOk(rs[q].page)}},
           has_missing_page |-> \A r \in of(d) : rs[r].page = PageNone \/ ~IntOk(rs[r].page)]]

_get_dates_and_pages_for_open_routes(rs) ==
    LET dated == {r \in OpenRoutes(rs) : _extract_date_str(rs[r].date) # NoDate}
        of(d) == {r \in dated : _extract_date_str(rs[r].date) = d}
    IN [d \in {_extract_date_str(rs[r].date) : r \in dated} |->
          [pages |-> {rs[r].page : r \in {q \in of(d) : rs[q].page # PageNone /\ IntOk(rs[q].page)}},
           has_missing_page |-> \E r \in of(d) : rs[r].page = PageNone \/ ~IntOk(rs[r].page)]]

\* faulty variant of FilterDates: logical today is not forced in
FilterDates_unforced(info, lt) ==
    LET kept == {d \in DOMAIN info : StrLeq(d, lt)}
    IN [d \in kept |-> info[d]]

\* run(), lines 191-201: keep the dates <= logical today, force logical today in
FilterDates(info, lt) ==
    LET kept == {d \in DOMAIN info : StrLeq(d, lt)}
    IN [d \in kept \cup {lt} |->
          IF d \in kept THEN info[d]
          ELSE [pages |-> {}, has_missing_page |-> TRUE]]

\* faulty variant of FetchPlan: a full scan unless every page is missing
FetchPlan_full(info) ==
    IF info.has_missing_page \/ info.pages # {} THEN <<PageNone>>
    ELSE SortInts(info.pages)

\* run(), lines 216-239: the get_routes invocations of one date, in order;
\* PageNone stands for an invocation without --page
FetchPlan(info) ==
    IF info.has_missing_page \/ info.pages = {} THEN <<PageNone>>
    ELSE SortInts(info.pages)

(***************************************************************************)
(* Jobs.                                                                   *)
(***************************************************************************)
\* faulty variant of _run_job: the exit code of the job is not looked at
_run_job_ignored(ok, next) == next

\* _run_job: a job that exits non-zero raises SystemExit out of run()
_run_job(ok, next) == IF ok THEN next ELSE "aborted"

\* faulty variant of UpsertRoutes: a listed route is stored as a new document
UpsertRoutes_reopen(rs, S, d) ==
    [r \in RouteKeys |->
        IF r \notin S THEN rs[r]
        ELSE [exists |-> TRUE, date |-> d, page |-> api[r].page,
              is_closed |-> FALSE, last_processed_at |-> Absent,
              has_full_details |-> FALSE, full_raw |-> "none"]]

\* get_routes: upsert of every listed route; a new document starts without
\* details, an existing one keeps every field the listing does not carry
UpsertRoutes(rs, S, d) ==
    [r \in RouteKeys |->
        IF r \notin S THEN rs[r]
        ELSE IF rs[r].exists
             THEN [rs[r] EXCEPT !.date = d, !.page = api[r].page]
             ELSE [exists |-> TRUE, date |-> d, page |-> api[r].page,
                   is_closed |-> FALSE, last_processed_at |-> Absent,
                   has_full_details |-> FALSE, full_raw |-> "none"]]

\* get_details_from_route: the routes of the date the job asks details for
DetailQuery(rs, d) ==
    {r \in RouteKeys : rs[r].exists /\ rs[r].date = d /\ rs[r].has_full_details = FALSE}

\* get_details_from_route: store the payload of every route whose fetch did
\* not raise DispatchTrackAPIError
StoreDetails(rs, S) ==
    [r \in RouteKeys |->
        IF r \in S
        THEN [rs[r] EXCEPT !.full_raw = fetch_route_details(r), !.has_full_details = TRUE]
        ELSE rs[r]]

\* faulty variant of SelectRoutes: the staleness gate is left out
SelectRoutes_ungated(rs, d, dtu, now) ==
    {r \in RouteKeys : rs[r].exists /\ rs[r].date = d /\ rs[r].is_closed # TRUE}

\* faulty variant of SelectRoutes: the staleness gate uses < instead of <=
SelectRoutes_strict(rs, d, dtu, now) ==
    {r \in RouteKeys :
        /\ rs[r].exists
        /\ rs[r].date = d
        /\ rs[r].is_closed # TRUE
        /\ (dtu > 0 => \/ rs[r].last_processed_at = Absent
                       \/ rs[r].last_processed_at < now - dtu)}

\* run(), lines 248-268: the routes put through the per-route pipeline
SelectRoutes(rs, d, dtu, now) ==
    {r \in RouteKeys :
        /\ rs[r].exists
        /\ rs[r].date = d
        /\ rs[r].is_closed # TRUE
        /\ (dtu > 0 => \/ rs[r].last_processed_at = Absent
                       \/ rs[r].last_processed_at <= now - dtu)}

\* faulty variant of Chain: the closure check runs before the dispatches of
\* the route are expanded
Chain_close_first == <<"close_route_if_all_dispatches_closed",
                       "get_dispatches",
                       "backfill_tipo_orden_from_tags",
                       "backfill_compromise_date_from_tags",
                       "get_ct",
                       "get_substatus">>

\* faulty variant of Chain: the closure check runs before the sub-status match
Chain_close_early == <<"get_dispatches",
                       "backfill_tipo_orden_from_tags",
                       "backfill_compromise_date_from_tags",
                       "get_ct",
                       "close_route_if_all_dispatches_closed",
                       "get_substatus">>

\* run(), lines 276-313: the per-route chain
Chain == <<"get_dispatches",
           "backfill_tipo_orden_from_tags",
           "backfill_compromise_date_from_tags",
           "get_ct",
           "get_substatus",
           "close_route_if_all_dispatches_closed">>

\* get_dispatches: expand the stored payload of a route that has details
ExpandDispatches(ds, rs, r) ==
    IF rs[r].has_full_details /\ rs[r].full_raw # "none"
    THEN [ds EXCEPT ![r] = rs[r].full_raw]
    ELSE ds

\* close_route_if_all_dispatches_closed: the decisions the closure
\* collaborator can take for route r
CloseDecisions(ds, r) ==
    CASE ds[r] = "terminal" -> {TRUE}
      [] ds[r] = "open" -> {FALSE}
      [] OTHER -> BOOLEAN

\* faulty variant of StampRoute: only a closed route is stamped
StampRoute_closed_only(rs, r, now) ==
    IF rs[r].is_closed THEN [rs EXCEPT ![r].last_processed_at = now] ELSE rs

\* faulty variant of StampRoute: the filter of the update matches every route
StampRoute_all(rs, r, now) ==
    [q \in RouteKeys |->
        IF rs[q].exists THEN [rs[q] EXCEPT !.last_processed_at = now] ELSE rs[q]]

\* run(), lines 315-319
StampRoute(rs, r, now) == [rs EXCEPT ![r].last_processed_at = now]

\* faulty variant of _save_meta: the timestamp of the start of the run is stored
_save_meta_run_start(dates, now) ==
    [last_run_utc |-> now_utc, dates_processed |-> SortDates(dates)]

\* _save_meta
_save_meta(dates, now) == [last_run_utc |-> now, dates_processed |-> SortDates(dates)]

(***************************************************************************)
(* Values of document fields.  A field is missing, null (None), a string,  *)
(* an integer or a float; a string is the sequence of its characters.  The *)
(* floats of the model are the ones math.isnan / math.isinf single out.    *)
(***************************************************************************)
Missing == [k |-> "missing"]
None == [k |-> "none"]
PyStr(s) == [k |-> "str", v |-> s]
PyInt(n) == [k |-> "int", v |-> n]
PyFloat(x) == [k |-> "float", v |-> x]
PySet(S) == [k |-> "set", v |-> S]

BadFloats == {"nan", "inf", "-inf"}
Whitespace == {" "}
Digits == <<"0", "1", "2", "3", "4", "5", "6", "7", "8", "9">>

\* str.isdigit()
isdigit(s) == s # <<>> /\ \A i \in 1 .. Len(s) : \E j \in 1 .. Len(Digits) : Digits[j] = s[i]

\* int(s) of a string of digits
RECURSIVE int(_)
int(s) ==
    IF s = <<>> THEN 0
    ELSE int(SubSeq(s, 1, Len(s) - 1)) * Len(Digits)
            + ((CHOOSE j \in 1 .. Len(Digits) : Digits[j] = s[Len(s)]) - 1)

\* str(n) of an integer
RECURSIVE DecStr(_)
DecStr(n) ==
    IF n < 0 THEN <<"-">> \o DecStr(-n)
    ELSE IF n < Len(Digits) THEN <<Digits[n + 1]>>
    ELSE DecStr(n \div Len(Digits)) \o <<Digits[(n % Len(Digits)) + 1]>>

\* str(value)
str(x) ==
    CASE x.k = "str" -> x.v
      [] x.k = "int" -> DecStr(x.v)
      [] x.k = "float" ->
            (CASE x.v = "nan" -> <<"n", "a", "n">>
               [] x.v = "inf" -> <<"i", "n", "f">>
               [] OTHER -> <<"-", "i", "n", "f">>)
      [] OTHER -> <<"N", "o", "n", "e">>

\* str.strip()
RECURSIVE lstrip(_)
lstrip(s) == IF s # <<>> /\ Head(s) \in Whitespace THEN lstrip(Tail(s)) ELSE s

RECURSIVE rstrip(_)
rstrip(s) ==
    IF s # <<>> /\ s[Len(s)] \in Whitespace THEN rstrip(SubSeq(s, 1, Len(s) - 1)) ELSE s

strip(s) == rstrip(lstrip(s))

\* str.lower(), on the letters the codes of the model are written with
lower(s) ==
    [i \in 1 .. Len(s) |->
        CASE s[i] = "N" -> "n"
          [] s[i] = "A" -> "a"
          [] OTHER -> s[i]]

\* Python truthiness of a field value ("if not value")
Truthy(x) ==
    CASE x.k \in {"missing", "none"} -> FALSE
      [] x.k = "str" -> x.v # <<>>
      [] x.k = "int" -> x.v # 0
      [] x.k = "set" -> x.v # {}
      [] OTHER -> TRUE

(***************************************************************************)
(* Code-Variant Matcher of the sub-status step (src/backfill_substatus.py) *)
(* and its earlier form in orchestrator/jobs/get_substatus.py.             *)
(***************************************************************************)
_is_bad_number(value) == value.k = "float" /\ value.v \in BadFloats

_normalize_code(code) ==
    IF code = None THEN None
    ELSE IF _is_bad_number(code) THEN None
    ELSE LET s == strip(str(code))
         IN IF s = <<>> \/ lower(s) = <<"n", "a", "n">> THEN None ELSE PyStr(s)

\* faulty variant of _code_variants: the integer form is left out
_code_variants_string_only(code) ==
    LET norm == _normalize_code(code)
    IN IF norm = None THEN None ELSE PySet({norm})

\* backfill_substatus._code_variants: None, or the set of representations
_code_variants(code) ==
    LET norm == _normalize_code(code)
    IN IF norm = None THEN None
       ELSE PySet({norm} \cup (IF isdigit(norm.v) THEN {PyInt(int(norm.v))} ELSE {}))

\* get_substatus._code_variants: the raw value, its stripped string and,
\* for a string of digits, the integer
get_substatus_code_variants(code) ==
    IF code = None THEN None
    ELSE LET s == strip(str(code))
         IN PySet({code, PyStr(s)} \cup (IF isdigit(s) THEN {PyInt(int(s))} ELSE {}))

\* find_one({"Código Sub": {"$in": variants}}): the rows the query matches
MatchingRows(sub, variants) == {row \in sub : row.code \in variants.v}

\* backfill_substatus._lookup_substatus: the results find_one can return
_lookup_substatus(sub, code) ==
    LET variants == _code_variants(code)
    IN IF ~Truthy(variants) THEN {None}
       ELSE LET M == MatchingRows(sub, variants)
            IN IF M = {} THEN {None} ELSE M

\* get_substatus._lookup_substatus
get_substatus_lookup_substatus(sub, code) ==
    LET variants == get_substatus_code_variants(code)
    IN IF ~Truthy(variants) THEN {None}
       ELSE LET M == MatchingRows(sub, variants)
            IN IF M = {} THEN {None} ELSE M

(***************************************************************************)
(* Enrichment steps.  A dispatch collection ds maps the identifier of each *)
(* dispatch document to its fields: the route it belongs to, whether its   *)
(* sync_timestamp lies in the recency window, the values of its FECSOLDES, *)
(* TIPO_ORDEN and CODCOMU tags (None: no such tag), its substatus_code and *)
(* the enrichment outputs.  A step is given by the documents it calls      *)
(* update_one for and by the fields that update sets.                      *)
(***************************************************************************)
\* faulty variant of normalize_compromise_date: the value is not trimmed
normalize_compromise_date_untrimmed(raw) ==
    IF ~Truthy(raw) THEN None
    ELSE LET s == str(raw)
         IN IF Len(s) # 8 \/ ~isdigit(s) THEN None
            ELSE PyStr(SubSeq(s, 1, 4) \o <<"-">> \o SubSeq(s, 5, 6) \o <<"-">> \o SubSeq(s, 7, 8))

\* normalize_compromise_date: YYYYMMDD -> YYYY-MM-DD, None if invalid
normalize_compromise_date(raw) ==
    IF ~Truthy(raw) THEN None
    ELSE LET s == strip(str(raw))
         IN IF Len(s) # 8 \/ ~isdigit(s) THEN None
            ELSE PyStr(SubSeq(s, 1, 4) \o <<"-">> \o SubSeq(s, 5, 6) \o <<"-">> \o SubSeq(s, 7, 8))

\* faulty variant of DateUpdate: only the raw value is stored
DateUpdate_raw_only(doc) == [doc EXCEPT !.compromise_date_raw = doc.fecsoldes]

\* process_batch, lines 82-90: the update of one document
DateUpdate(doc) ==
    [doc EXCEPT !.compromise_date_raw = doc.fecsoldes,
                !.compromise_date = normalize_compromise_date(doc.fecsoldes)]

\* the documents a pass that selected Q writes
DateWrites(ds, Q) ==
    {d \in Q : ds[d].fecsoldes # None /\ normalize_compromise_date(ds[d].fecsoldes) # None}

\* faulty variant of DateQuery: the pass selects every recent document
DateQuery_all_recent(ds) == {d \in DOMAIN ds : ds[d].stored /\ ds[d].recent}

\* backfill_compromise_date_from_tags.run (recency window): the query
DateQuery(ds) ==
    {d \in DOMAIN ds : ds[d].stored /\ ds[d].compromise_date = Missing /\ ds[d].recent}

\* backfill_compromise_date_from_tags.run(route_key): the query
DateQueryRoute(ds, r) ==
    {d \in DOMAIN ds : ds[d].stored /\ ds[d].route_key = r /\ ds[d].compromise_date = Missing}

\* orchestrator/jobs/backfill_tipo_orden_from_tags.run: query, writes, update
CategoryQuery(ds) ==
    {d \in DOMAIN ds : ds[d].stored /\ ds[d].tipo_orden \in {Missing, None, PyStr(<<>>)}}

\* faulty variant of CategoryWrites: an empty tag value is stored as well
CategoryWrites_any(ds, Q) == {d \in Q : ds[d].tipo_tag # None}

CategoryWrites(ds, Q) == {d \in Q : Truthy(ds[d].tipo_tag)}

CategoryUpdate(doc) == [doc EXCEPT !.tipo_orden = doc.tipo_tag]

\* backfill_tipo_orden_from_tags.run (recency window): query and writes
CategoryQueryRecent(ds) ==
    {d \in DOMAIN ds : ds[d].stored /\ ds[d].tipo_orden = Missing /\ ds[d].recent}

CategoryWritesRecent(ds, Q) == {d \in Q : ds[d].tipo_tag # None}

\* the CT reference table: Id Externo -> CT CORRESPONDE
ct_col ==
    {[id |-> PyStr(<<"c", "1">>), ct |-> PyStr(<<"T", "1", " ">>)],
     [id |-> PyStr(<<"c", "2">>), ct |-> PyStr(<<>>)]}

\* _extract_codcomu_value
_extract_codcomu_value(doc) ==
    IF ~Truthy(doc.codcomu) THEN None ELSE PyStr(strip(str(doc.codcomu)))

\* ct_col.find_one({"Id Externo": external_id}), then "CT CORRESPONDE"
CtValue(doc) ==
    LET external_id == _extract_codcomu_value(doc)
        M == {row \in ct_col : row.id = external_id}
    IN IF ~Truthy(external_id) \/ M = {} THEN None
       ELSE (CHOOSE row \in M : TRUE).ct

\* faulty variant of CtQuery: every stored dispatch is scanned
CtQuery_any(ds) == {d \in DOMAIN ds : ds[d].stored}

\* get_ct.run / backfill_ct.run: queries, writes, update
CtQuery(ds) == {d \in DOMAIN ds : ds[d].stored /\ ds[d].ct \in {Missing, None}}

CtQueryRecent(ds) == {d \in CtQuery(ds) : ds[d].recent}

\* faulty variant of CtWrites: a document without a match is written too
CtWrites_all(ds, Q) == Q

CtWrites(ds, Q) == {d \in Q : Truthy(CtValue(ds[d]))}

\* faulty variant of CtUpdate: the tag value is stored as found, untrimmed
CtUpdate_tag_as_code(doc) ==
    [doc EXCEPT !.ct = IF Truthy(CtValue(doc)) THEN PyStr(strip(str(CtValue(doc)))) ELSE None,
                !.ct_match_codcomu = doc.codcomu]

CtUpdate(doc) ==
    [doc EXCEPT !.ct = IF Truthy(CtValue(doc)) THEN PyStr(strip(str(CtValue(doc)))) ELSE None,
                !.ct_match_codcomu = _extract_codcomu_value(doc)]

\* the $set of the step named `step`
UpdateOf(step, doc) ==
    CASE step = "date" -> DateUpdate(doc)
      [] step = "category" -> CategoryUpdate(doc)
      [] OTHER -> CtUpdate(doc)

\* update_one for each document of W
Apply(ds, W, step) ==
    [d \in DOMAIN ds |-> IF d \in W THEN UpdateOf(step, ds[d]) ELSE ds[d]]

\* the three fields of a mapping row, or of no row
Triple(row) ==
    IF row = None THEN [eb |-> None, eg |-> None, ci |-> None]
    ELSE [eb |-> row.eb, eg |-> row.eg, ci |-> row.ci]

SetTriple(doc, row) ==
    [doc EXCEPT !.estado_beetrack = Triple(row).eb,
                !.estado_guia = Triple(row).eg,
                !.cierre = Triple(row).ci]

\* backfill_substatus.run, lines 162-222: every recent document is written,
\* from the row found for it or with nulls
SubstatusQuery(ds) == {d \in DOMAIN ds : ds[d].stored /\ ds[d].recent}

\* faulty variant of SubstatusWrites: a document without a row is skipped
SubstatusWrites_hits(ds, Q, pick) == {d \in Q : pick[d] # None}

SubstatusWrites(ds, Q, pick) == Q

\* get_substatus.run, lines 96-135: documents with a code that miss one of
\* the three fields; only a document with a row is written
GetSubstatusQuery(ds) ==
    {d \in DOMAIN ds :
        /\ ds[d].stored
        /\ ds[d].substatus_code \notin {Missing, None}
        /\ Missing \in {ds[d].estado_beetrack, ds[d].estado_guia, ds[d].cierre}}

GetSubstatusWrites(ds, Q, pick) == {d \in Q : pick[d] # None}

\* the rows find_one can return for each document
Lookups(ds, sub, form) ==
    {pick \in [DOMAIN ds -> sub \cup {None}] :
        \A d \in DOMAIN ds :
           pick[d] \in IF form = "get_substatus"
                       THEN get_substatus_lookup_substatus(sub, ds[d].substatus_code)
                       ELSE _lookup_substatus(sub, ds[d].substatus_code)}

\* get_dispatches for route r: a dispatch of the payload that is not in the
\* collection yet is inserted with ct = None
ExpandDocs(ds, r) ==
    [d \in DOMAIN ds |->
        IF ds[d].route_key = r /\ ~ds[d].stored
        THEN [ds[d] EXCEPT !.stored = TRUE, !.ct = None]
        ELSE ds[d]]

\* the effect on the dispatch collection of job `name` of the chain, invoked
\* with --route-key r; pick: the rows the sub-status lookups return
StageDocs(name, r, ds, pick) ==
    CASE name = "get_dispatches" -> ExpandDocs(ds, r)
      [] name = "backfill_tipo_orden_from_tags" ->
            Apply(ds, CategoryWrites(ds, CategoryQuery(ds)), "category")
      [] name = "backfill_compromise_date_from_tags" ->
            Apply(ds, DateWrites(ds, DateQueryRoute(ds, r)), "date")
      [] name = "get_ct" -> Apply(ds, CtWrites(ds, CtQuery(ds)), "ct")
      [] name = "get_substatus" ->
            [d \in DOMAIN ds |->
                IF d \in GetSubstatusWrites(ds, GetSubstatusQuery(ds), pick)
                THEN SetTriple(ds[d], pick[d]) ELSE ds[d]]
      [] OTHER -> ds

(***************************************************************************)
(* Initial state: the clock at the start of day 1, no run in progress.     *)
(* Both routes are of day 1; r1 is listed on page 1, r2 on page 2.  The    *)
(* store is empty, or it holds open route documents written by an earlier  *)
(* version of the fetch job: r1 with or without a usable page, and         *)
(* possibly r2 with its page.                                              *)
(***************************************************************************)
NoMeta == [last_run_utc |-> Absent, dates_processed |-> <<>>]

\* no enrichment pass has been run on its own
NoJob == [name |-> "none", arg |-> "", writes |-> 0, keys |-> {}, again |-> FALSE, prev |-> 0]

LegacyDoc(d, p) ==
    [exists |-> TRUE, date |-> d, page |-> p, is_closed |-> FALSE,
     last_processed_at |-> Absent, has_full_details |-> FALSE, full_raw |-> "none"]

ApiInit(S) ==
    [r \in RouteKeys |->
        [created |-> r \in S, terminal |-> FALSE, day |-> 1,
         page |-> IF r = "r2" THEN 2 ELSE 1]]

Init ==
    /\ clock = StartClock
    /\ ticks = 0
    /\ \/ /\ api = ApiInit({})
          /\ routes = [r \in RouteKeys |-> NoDoc]
       \/ \E p \in LegacyPages, S \in {{"r1"}, {"r1", "r2"}} :
            /\ api = ApiInit(S)
            /\ routes = [r \in RouteKeys |->
                           IF r \notin S THEN NoDoc
                           ELSE LegacyDoc(IsoFormat(1), IF r = "r1" THEN p ELSE 2)]
    /\ dispatches = [r \in RouteKeys |-> "none"]
    /\ meta = NoMeta
    /\ pc = "idle"
    /\ delta_time_update = 0
    /\ delta_day = 0
    /\ now_utc = StartClock
    /\ logical_today = IsoFormat(Today(StartClock))
    /\ date_page_info = <<>>
    /\ date_queue = <<>>
    /\ cur_date = NoDate
    /\ page_queue = <<>>
    /\ route_keys = {}
    /\ cur_route = "r1"
    /\ stage = 1
    /\ fetchLog = <<>>
    /\ detailLog = {}
    /\ selected = {}
    /\ jobLog = <<>>
    /\ processed = <<>>
    /\ failed = FALSE
    /\ disp = <<>>
    /\ sub_col = {}
    /\ job = NoJob

(***************************************************************************)
(* Environment.                                                            *)
(***************************************************************************)
\* no run is in progress
BetweenRuns == {"idle", "done", "aborted"}

\* the positions of a run before which a change of the external system can
\* be told from a later one: between runs and before a request is sent
ApiObserved == BetweenRuns \cup {"fetch", "details"}

\* the clock is read when a run starts and when the meta record is saved;
\* time passes between runs, while the fetch jobs run and before the save
Tick ==
    /\ UNCHANGED evars
    /\ pc \in BetweenRuns \cup {"fetch", "meta"}
    /\ ticks < MaxTicks
    /\ clock' = clock + TickHours(ticks + 1)
    /\ ticks' = ticks + 1
    /\ UNCHANGED <<api, routes, dispatches, meta, pc, delta_time_update, delta_day,
                   now_utc, logical_today, date_page_info, date_queue, cur_date,
                   page_queue, route_keys, cur_route, stage, fetchLog, detailLog,
                   selected, jobLog, processed, failed>>

\* the external system creates route r (between two runs)
ApiCreate(r) ==
    /\ UNCHANGED evars
    /\ pc \in BetweenRuns
    /\ ~api[r].created
    /\ api' = [api EXCEPT ![r].created = TRUE]
    /\ UNCHANGED <<clock, ticks, routes, dispatches, meta, pc, delta_time_update,
                   delta_day, now_utc, logical_today, date_page_info, date_queue,
                   cur_date, page_queue, route_keys, cur_route, stage, fetchLog,
                   detailLog, selected, jobLog, processed, failed>>

\* every dispatch of route r reaches a terminal state in the external system
ApiFinish(r) ==
    /\ UNCHANGED evars
    /\ pc \in ApiObserved
    /\ api[r].created
    /\ ~api[r].terminal
    /\ api' = [api EXCEPT ![r].terminal = TRUE]
    /\ UNCHANGED <<clock, ticks, routes, dispatches, meta, pc, delta_time_update,
                   delta_day, now_utc, logical_today, date_page_info, date_queue,
                   cur_date, page_queue, route_keys, cur_route, stage, fetchLog,
                   detailLog, selected, jobLog, processed, failed>>

(***************************************************************************)
(* run(delta_time_update, delta_day).                                      *)
(*                                                                         *)
(* A run is one process: when it ends, by SystemExit or by returning, its  *)
(* local variables are gone (ExitRun).                                     *)
(***************************************************************************)
ExitRun ==
    /\ delta_time_update' = 0
    /\ delta_day' = 0
    /\ now_utc' = StartClock
    /\ logical_today' = IsoFormat(Today(StartClock))
    /\ date_page_info' = <<>>
    /\ date_queue' = <<>>
    /\ cur_date' = NoDate
    /\ page_queue' = <<>>
    /\ route_keys' = {}
    /\ cur_route' = "r1"
    /\ stage' = 1
    /\ fetchLog' = <<>>
    /\ detailLog' = {}
    /\ selected' = {}
    /\ jobLog' = <<>>
    /\ processed' = <<>>

\* faulty variant of StartRun: the run's now is shifted by delta_day like
\* its logical today
StartRun_logical_now(dtu, dd) ==
    /\ UNCHANGED evars
    /\ pc \in BetweenRuns
    /\ delta_time_update' = dtu
    /\ delta_day' = dd
    /\ now_utc' = clock - dd * HoursPerDay
    /\ logical_today' = IsoFormat(Today(clock) - dd)
    /\ date_page_info' = FilterDates(_get_dates_and_pages_for_open_routes(routes),
                                     logical_today')
    /\ date_queue' = SortDates(DOMAIN date_page_info')
    /\ pc' = "date"
    /\ failed' = FALSE
    /\ UNCHANGED <<clock, ticks, api, routes, dispatches, meta, cur_date, page_queue,
                   route_keys, cur_route, stage, fetchLog, detailLog, selected,
                   jobLog, processed>>

\* lines 181-203: resolve logical today and discover the dates
StartRun(dtu, dd) ==
    /\ UNCHANGED evars
    /\ pc \in BetweenRuns
    /\ delta_time_update' = dtu
    /\ delta_day' = dd
    /\ now_utc' = clock
    /\ logical_today' = IsoFormat(Today(clock) - dd)
    /\ date_page_info' = FilterDates(_get_dates_and_pages_for_open_routes(routes),
                                     logical_today')
    /\ date_queue' = SortDates(DOMAIN date_page_info')
    /\ pc' = "date"
    /\ failed' = FALSE
    /\ UNCHANGED <<clock, ticks, api, routes, dispatches, meta, cur_date, page_queue,
                   route_keys, cur_route, stage, fetchLog, detailLog, selected,
                   jobLog, processed>>

\* line 216: the next date of the loop, or the end of the loop
NextDate ==
    /\ UNCHANGED evars
    /\ pc = "date"
    /\ IF date_queue = <<>>
       THEN /\ pc' = "meta"
            /\ UNCHANGED <<cur_date, page_queue, date_queue, fetchLog, detailLog, selected>>
       ELSE /\ cur_date' = Head(date_queue)
            /\ date_queue' = Tail(date_queue)
            /\ page_queue' = FetchPlan(date_page_info[Head(date_queue)])
            /\ fetchLog' = <<>>
            /\ detailLog' = {}
            /\ selected' = {}
            /\ pc' = "fetch"
    /\ UNCHANGED <<clock, ticks, api, routes, dispatches, meta, delta_time_update,
                   delta_day, now_utc, logical_today, date_page_info, route_keys,
                   cur_route, stage, jobLog, processed, failed>>

\* lines 228-239: one get_routes invocation
GetRoutes(ok) ==
    /\ UNCHANGED evars
    /\ pc = "fetch"
    /\ page_queue # <<>>
    /\ pc' = _run_job(ok, IF Tail(page_queue) = <<>> THEN "details" ELSE "fetch")
    /\ failed' = (failed \/ ~ok)
    /\ IF pc' = "aborted"
       THEN ExitRun /\ UNCHANGED routes
       ELSE /\ routes' = UpsertRoutes(routes, ApiListing(cur_date, Head(page_queue)), cur_date)
            /\ fetchLog' = Append(fetchLog, Head(page_queue))
            /\ page_queue' = Tail(page_queue)
            /\ UNCHANGED <<delta_time_update, delta_day, now_utc, logical_today,
                           date_page_info, date_queue, cur_date, route_keys, cur_route,
                           stage, detailLog, selected, jobLog, processed>>
    /\ UNCHANGED <<clock, ticks, api, dispatches, meta>>

\* lines 241-242: get_details_from_route for the date, the external system
\* answering every detail request
GetDetails(ok) ==
    /\ UNCHANGED evars
    /\ pc = "details"
    /\ pc' = _run_job(ok, "select")
    /\ failed' = (failed \/ ~ok)
    /\ IF pc' = "aborted"
       THEN ExitRun /\ UNCHANGED routes
       ELSE /\ routes' = StoreDetails(routes, DetailQuery(routes, cur_date))
            /\ detailLog' = DetailQuery(routes, cur_date)
            /\ fetchLog' = <<>>
            /\ UNCHANGED <<delta_time_update, delta_day, now_utc, logical_today,
                           date_page_info, date_queue, cur_date, page_queue, route_keys,
                           cur_route, stage, selected, jobLog, processed>>
    /\ UNCHANGED <<clock, ticks, api, dispatches, meta>>

\* lines 244-274: select the routes of the date
Select ==
    /\ UNCHANGED evars
    /\ pc = "select"
    /\ route_keys' = SelectRoutes(routes, cur_date, delta_time_update, now_utc)
    /\ selected' = route_keys'
    /\ pc' = "selected"
    /\ detailLog' = {}
    /\ UNCHANGED <<clock, ticks, api, routes, dispatches, meta, delta_time_update,
                   delta_day, now_utc, logical_today, date_page_info, date_queue,
                   cur_date, page_queue, cur_route, stage, fetchLog, jobLog,
                   processed, failed>>

\* line 276: the next route of the date (cursor order), or the end of the date
NextRoute ==
    /\ UNCHANGED evars
    /\ pc \in {"selected", "stamped"}
    /\ IF route_keys = {}
       THEN /\ pc' = "date"
            /\ processed' = Append(processed, cur_date)
            /\ UNCHANGED <<route_keys, cur_route, stage, jobLog>>
       ELSE \E r \in route_keys :
              /\ cur_route' = r
              /\ route_keys' = route_keys \ {r}
              /\ stage' = 1
              /\ jobLog' = <<>>
              /\ pc' = "stage"
              /\ UNCHANGED processed
    /\ selected' = {}
    /\ UNCHANGED <<clock, ticks, api, routes, dispatches, meta, delta_time_update,
                   delta_day, now_utc, logical_today, date_page_info, date_queue,
                   cur_date, page_queue, fetchLog, detailLog, failed>>

\* lines 279-313: one job of the chain for cur_route
RunStage(ok) ==
    /\ pc = "stage"
    /\ pc' = _run_job(ok, IF stage = Len(Chain) THEN "stamp" ELSE "stage")
    /\ failed' = (failed \/ ~ok)
    /\ IF pc' = "aborted"
       THEN ExitRun /\ UNCHANGED <<routes, dispatches, disp>>
       ELSE /\ jobLog' = Append(jobLog, Chain[stage])
            /\ stage' = stage + 1
            /\ \E pick \in Lookups(disp, sub_col, "get_substatus") :
                  disp' = StageDocs(Chain[stage], cur_route, disp, pick)
            /\ CASE Chain[stage] = "get_dispatches" ->
                      /\ dispatches' = ExpandDispatches(dispatches, routes, cur_route)
                      /\ UNCHANGED routes
                 [] Chain[stage] = "close_route_if_all_dispatches_closed" ->
                      /\ \E c \in CloseDecisions(dispatches, cur_route) :
                           routes' = IF c THEN [routes EXCEPT ![cur_route].is_closed = TRUE]
                                     ELSE routes
                      /\ UNCHANGED dispatches
                 [] OTHER -> UNCHANGED <<routes, dispatches>>
            /\ UNCHANGED <<delta_time_update, delta_day, now_utc, logical_today,
                           date_page_info, date_queue, cur_date, page_queue, route_keys,
                           cur_route, fetchLog, detailLog, selected, processed>>
    /\ UNCHANGED <<clock, ticks, api, meta, sub_col, job>>

\* lines 315-319: stamp last_processed_at
Stamp ==
    /\ UNCHANGED evars
    /\ pc = "stamp"
    /\ routes' = StampRoute(routes, cur_route, now_utc)
    /\ pc' = "stamped"
    /\ UNCHANGED <<clock, ticks, api, dispatches, meta, delta_time_update, delta_day,
                   now_utc, logical_today, date_page_info, date_queue, cur_date,
                   page_queue, route_keys, cur_route, stage, fetchLog, detailLog,
                   selected, jobLog, processed, failed>>

\* lines 323-326: save the Sync Meta record and return
SaveMeta ==
    /\ UNCHANGED evars
    /\ pc = "meta"
    /\ meta' = _save_meta(DOMAIN date_page_info, clock)
    /\ pc' = "done"
    /\ ExitRun
    /\ UNCHANGED <<clock, ticks, api, routes, dispatches, failed>>

Next ==
    \/ Tick
    \/ \E r \in RouteKeys : ApiCreate(r)
    \/ \E r \in RouteKeys : ApiFinish(r)
    \/ \E dtu \in DeltaTimeUpdates, dd \in DeltaDays : StartRun(dtu, dd)
    \/ NextDate
    \/ \E ok \in BOOLEAN : GetRoutes(ok)
    \/ \E ok \in BOOLEAN : GetDetails(ok)
    \/ Select
    \/ NextRoute
    \/ \E ok \in BOOLEAN : RunStage(ok)
    \/ Stamp
    \/ SaveMeta

Spec == Init /\ [][Next]_vars

(***************************************************************************)
(* Runs under fairness: the controller is invoked again and again with     *)
(* delta_day = 0 and the staleness gate off, no job fails, and a run that  *)
(* can take a step eventually takes it.                                    *)
(***************************************************************************)
RunStep ==
    \/ StartRun(0, 0)
    \/ NextDate
    \/ GetRoutes(TRUE)
    \/ GetDetails(TRUE)
    \/ Select
    \/ NextRoute
    \/ RunStage(TRUE)
    \/ Stamp
    \/ SaveMeta

LiveNext ==
    \/ Tick
    \/ \E r \in RouteKeys : ApiCreate(r)
    \/ \E r \in RouteKeys : ApiFinish(r)
    \/ RunStep

LiveSpec == Init /\ [][LiveNext]_vars /\ WF_vars(RunStep)

(***************************************************************************)
(* Runs against an external system that can answer a route-detail request  *)
(* with a non-2xx status.  dispatchtrack_client._get raises                *)
(* DispatchTrackAPIError for it; get_details_from_route.run catches the    *)
(* error per route, logs it and goes on with the next route, and the job   *)
(* exits 0.  job records the routes whose request was refused.             *)
(***************************************************************************)
GetDetailsApi(bad) ==
    /\ pc = "details"
    /\ bad \subseteq DetailQuery(routes, cur_date)
    /\ pc' = _run_job(TRUE, "select")
    /\ routes' = StoreDetails(routes, DetailQuery(routes, cur_date) \ bad)
    /\ detailLog' = DetailQuery(routes, cur_date) \ bad
    /\ fetchLog' = <<>>
    /\ job' = [name |-> "get_details_from_route", errors |-> bad]
    /\ UNCHANGED <<disp, sub_col>>
    /\ UNCHANGED <<clock, ticks, api, dispatches, meta, delta_time_update, delta_day,
                   now_utc, logical_today, date_page_info, date_queue, cur_date,
                   page_queue, route_keys, cur_route, stage, selected, jobLog,
                   processed, failed>>

ApiErrorNext ==
    \/ Tick
    \/ \E r \in RouteKeys : ApiCreate(r)
    \/ \E r \in RouteKeys : ApiFinish(r)
    \/ StartRun(0, 0)
    \/ NextDate
    \/ \E ok \in BOOLEAN : GetRoutes(ok)
    \/ \E bad \in SUBSET RouteKeys : GetDetailsApi(bad)
    \/ Select
    \/ NextRoute
    \/ RunStage(TRUE)
    \/ Stamp
    \/ SaveMeta

ApiErrorSpec == Init /\ [][ApiErrorNext]_vars

(***************************************************************************)
(* Runs with a record of the passes: job.last[r] is the start time of the  *)
(* last run that took route r through the whole per-route chain and        *)
(* stamped it, kept apart from the last_processed_at field the controller  *)
(* reads.                                                                  *)
(***************************************************************************)
LastPass(j, r) == IF j.name = "pass" THEN j.last[r] ELSE Absent

\* lines 315-319 with the pass recorded
StampPass ==
    /\ pc = "stamp"
    /\ routes' = StampRoute(routes, cur_route, now_utc)
    /\ pc' = "stamped"
    /\ job' = [name |-> "pass",
               last |-> [r \in RouteKeys |->
                           IF r = cur_route THEN now_utc ELSE LastPass(job, r)],
               again |-> LastPass(job, cur_route) # Absent]
    /\ UNCHANGED <<disp, sub_col>>
    /\ UNCHANGED <<clock, ticks, api, dispatches, meta, delta_time_update, delta_day,
                   now_utc, logical_today, date_page_info, date_queue, cur_date,
                   page_queue, route_keys, cur_route, stage, fetchLog, detailLog,
                   selected, jobLog, processed, failed>>

WindowNext ==
    \/ Tick
    \/ \E r \in RouteKeys : ApiCreate(r)
    \/ \E r \in RouteKeys : ApiFinish(r)
    \/ \E dtu \in DeltaTimeUpdates, dd \in DeltaDays : StartRun(dtu, dd)
    \/ NextDate
    \/ \E ok \in BOOLEAN : GetRoutes(ok)
    \/ \E ok \in BOOLEAN : GetDetails(ok)
    \/ Select
    \/ NextRoute
    \/ \E ok \in BOOLEAN : RunStage(ok)
    \/ StampPass
    \/ SaveMeta

WindowSpec == Init /\ [][WindowNext]_vars

(***************************************************************************)
(* Restart after an abort, compared with one completed run.  Any runs and  *)
(* any changes of the external system first bring the store to some state; *)
(* from then on the external system stays as it is.  job keeps that store  *)
(* (start); one run without failure is taken from it and its result kept   *)
(* (ref); the store is put back to start, runs that abort at some job      *)
(* follow, and then one run without failure.  Every run has                *)
(* delta_time_update = 0.                                                  *)
(***************************************************************************)
Timeless(rs) ==
    [r \in RouteKeys |->
        IF rs[r].exists THEN [rs[r] EXCEPT !.last_processed_at = Absent] ELSE rs[r]]

StoreState == [routes |-> Timeless(routes), dispatches |-> dispatches]

Reliable == job.name \in {"reference", "rerun"}

Snapshot ==
    /\ job.name = "none"
    /\ pc \in BetweenRuns
    /\ pc' = "idle"
    /\ job' = [name |-> "reference", start |-> [routes |-> routes, dispatches |-> dispatches],
               ref |-> StoreState, partial |-> FALSE]
    /\ UNCHANGED <<disp, sub_col>>
    /\ UNCHANGED <<clock, ticks, api, routes, dispatches, meta, delta_time_update,
                   delta_day, now_utc, logical_today, date_page_info, date_queue,
                   cur_date, page_queue, route_keys, cur_route, stage, fetchLog,
                   detailLog, selected, jobLog, processed, failed>>

PutBack ==
    /\ job.name = "reference"
    /\ pc = "done"
    /\ pc' = "idle"
    /\ routes' = job.start.routes
    /\ dispatches' = job.start.dispatches
    /\ job' = [job EXCEPT !.name = "restart", !.ref = StoreState]
    /\ UNCHANGED <<disp, sub_col>>
    /\ UNCHANGED <<clock, ticks, api, meta, delta_time_update, delta_day, now_utc,
                   logical_today, date_page_info, date_queue, cur_date, page_queue,
                   route_keys, cur_route, stage, fetchLog, detailLog, selected,
                   jobLog, processed, failed>>

Restart ==
    /\ job.name = "restart"
    /\ pc = "aborted"
    /\ pc' = "idle"
    /\ job' = [job EXCEPT !.name = "rerun",
                          !.partial = (StoreState # [routes |-> Timeless(job.start.routes),
                                                     dispatches |-> job.start.dispatches])]
    /\ UNCHANGED <<disp, sub_col>>
    /\ UNCHANGED <<clock, ticks, api, routes, dispatches, meta, delta_time_update,
                   delta_day, now_utc, logical_today, date_page_info, date_queue,
                   cur_date, page_queue, route_keys, cur_route, stage, fetchLog,
                   detailLog, selected, jobLog, processed, failed>>

RestartNext ==
    \/ job.name = "none" /\ Tick
    \/ job.name = "none" /\ \E r \in RouteKeys : ApiCreate(r)
    \/ job.name = "none" /\ \E r \in RouteKeys : ApiFinish(r)
    \/ /\ job.name # "none" => (pc = "idle" \/ (job.name = "restart" /\ pc = "aborted"))
       /\ StartRun(0, 0)
    \/ NextDate
    \/ \E ok \in BOOLEAN : (Reliable => ok) /\ GetRoutes(ok)
    \/ \E ok \in BOOLEAN : (Reliable => ok) /\ GetDetails(ok)
    \/ Select
    \/ NextRoute
    \/ \E ok \in BOOLEAN : (Reliable => ok) /\ RunStage(ok)
    \/ Stamp
    \/ SaveMeta
    \/ Snapshot
    \/ PutBack
    \/ Restart

RestartSpec == Init /\ [][RestartNext]_vars




(***************************************************************************)
(* The enrichment steps run on their own (run_jobs.py, run_daily_pipeline, *)
(* or by hand), no controller run being in progress.  The collection holds *)
(* two dispatch documents, d1 of route r1 and d2 of route r2; the first    *)
(* ranges over the inputs of one of the steps, the second over a few of    *)
(* them, every other field having the value the other steps leave alone.   *)
(***************************************************************************)
DispatchIds == {"d1", "d2"}

RouteOf(d) == IF d = "d1" THEN "r1" ELSE "r2"

BaseDoc(d) ==
    [route_key |-> RouteOf(d), stored |-> TRUE, recent |-> TRUE,
     fecsoldes |-> None, compromise_date_raw |-> Missing, compromise_date |-> Missing,
     tipo_tag |-> None, tipo_orden |-> Missing,
     codcomu |-> None, ct |-> None, ct_match_codcomu |-> Missing,
     substatus_code |-> None,
     estado_beetrack |-> None, estado_guia |-> None, cierre |-> None]

\* values of the FECSOLDES tag: none, empty, valid, valid with blanks, short
FecValues ==
    {None, PyStr(<<>>),
     PyStr(<<"2", "0", "2", "5", "1", "2", "0", "1">>),
     PyStr(<<" ", "2", "0", "2", "5", "1", "2", "0", "2">>),
     PyStr(<<"2", "0", "2", "5">>)}

\* a compromise_date stored by an earlier pass, with its raw value
OldDate == PyStr(<<"2", "0", "2", "5", "-", "1", "1", "-", "3", "0">>)
OldDateRaw == PyStr(<<"2", "0", "2", "5", "1", "1", "3", "0">>)

DateDocs(d) ==
    {[BaseDoc(d) EXCEPT !.recent = rc, !.fecsoldes = f,
                        !.compromise_date = c,
                        !.compromise_date_raw = IF c = Missing THEN Missing ELSE OldDateRaw] :
        rc \in BOOLEAN, f \in FecValues, c \in {Missing, OldDate}}

\* values of the TIPO_ORDEN tag and of the tipo_orden field
TipoTags == {None, PyStr(<<>>), PyStr(<<"A">>)}
TipoValues == {Missing, None, PyStr(<<>>), PyStr(<<"B">>)}

CategoryDocs(d) ==
    {[BaseDoc(d) EXCEPT !.recent = rc, !.tipo_tag = t, !.tipo_orden = v] :
        rc \in BOOLEAN, t \in TipoTags, v \in TipoValues}

\* values of the CODCOMU tag: none, empty, with a row, with a row and
\* blanks, with a row that has no CT, without a row
CodcomuValues ==
    {None, PyStr(<<>>), PyStr(<<"c", "1">>), PyStr(<<" ", "c", "1">>),
     PyStr(<<"c", "2">>), PyStr(<<"c", "9">>)}

OldCt == PyStr(<<"T", "0">>)

CtDocs(d) ==
    {[BaseDoc(d) EXCEPT !.recent = rc, !.codcomu = c, !.ct = v,
                        !.ct_match_codcomu = IF v = OldCt THEN PyStr(<<"c", "0">>) ELSE Missing] :
        rc \in BOOLEAN, c \in CodcomuValues, v \in {Missing, None, OldCt}}

\* values of substatus_code: unusable ones, the reference code 1 written as
\* an integer, plainly, zero-padded and with a blank, and codes without a row
Codes ==
    {None, PyFloat("nan"), PyFloat("inf"), PyStr(<<>>), PyStr(<<" ">>),
     PyStr(<<"n", "a", "n">>), PyStr(<<"N", "a", "N">>),
     PyInt(1), PyStr(<<"1">>), PyStr(<<"0", "1">>), PyStr(<<" ", "1">>),
     PyInt(7), PyStr(<<"a">>)}

\* the representations of reference code 1 in the table
TableCodes == {PyInt(1), PyStr(<<"1">>), PyStr(<<"0", "1">>)}

SubRow(c) == [code |-> c, eb |-> PyStr(<<"E">>), eg |-> PyStr(<<"G">>), ci |-> PyStr(<<"C">>)]

\* the three fields as an earlier pass left them: missing, null, or mapped
OldTriples ==
    {[eb |-> Missing, eg |-> Missing, ci |-> Missing],
     [eb |-> None, eg |-> None, ci |-> None],
     [eb |-> PyStr(<<"e">>), eg |-> PyStr(<<"g">>), ci |-> PyStr(<<"c">>)]}

SubDocs(d) ==
    {[BaseDoc(d) EXCEPT !.recent = rc, !.substatus_code = c,
                        !.estado_beetrack = t.eb, !.estado_guia = t.eg, !.cierre = t.ci] :
        rc \in BOOLEAN, c \in Codes, t \in OldTriples}

\* the second document: untouched by every step, or ready to be written by
\* the step the first document is an input of
Partner(d, F) ==
    {BaseDoc(d)} \cup
    {x \in F : /\ x.recent
               /\ \/ (x.compromise_date = Missing /\ x.fecsoldes \notin {None, PyStr(<<>>)})
                  \/ (x.tipo_orden = None /\ x.tipo_tag = PyStr(<<"A">>))
                  \/ (x.ct = Missing /\ x.codcomu = PyStr(<<"c", "1">>))
                  \/ (x.estado_beetrack = Missing /\ x.substatus_code = PyInt(1))}

\* the variables of the controller and of the route store
cvars == <<clock, ticks, api, routes, dispatches, meta, pc, delta_time_update, delta_day,
           now_utc, logical_today, date_page_info, date_queue, cur_date, page_queue,
           route_keys, cur_route, stage, fetchLog, detailLog, selected, jobLog,
           processed, failed>>

\* no controller run has been started
ControllerIdle ==
    /\ clock = StartClock
    /\ ticks = 0
    /\ api = ApiInit({})
    /\ routes = [r \in RouteKeys |-> NoDoc]
    /\ dispatches = [r \in RouteKeys |-> "none"]
    /\ meta = NoMeta
    /\ pc = "idle"
    /\ delta_time_update = 0
    /\ delta_day = 0
    /\ now_utc = StartClock
    /\ logical_today = IsoFormat(Today(StartClock))
    /\ date_page_info = <<>>
    /\ date_queue = <<>>
    /\ cur_date = NoDate
    /\ page_queue = <<>>
    /\ route_keys = {}
    /\ cur_route = "r1"
    /\ stage = 1
    /\ fetchLog = <<>>
    /\ detailLog = {}
    /\ selected = {}
    /\ jobLog = <<>>
    /\ processed = <<>>
    /\ failed = FALSE

\* the collections a step can find
DocInputs ==
    \E Family \in {"date", "category", "ct", "substatus"} :
       LET Docs(d) == CASE Family = "date" -> DateDocs(d)
                        [] Family = "category" -> CategoryDocs(d)
                        [] Family = "ct" -> CtDocs(d)
                        [] OTHER -> SubDocs(d)
       IN  /\ sub_col \in IF Family = "substatus"
                            THEN {{SubRow(c)} : c \in TableCodes}
                            ELSE {{SubRow(PyInt(1))}}
           /\ \E x \in Docs("d1"), y \in Partner("d2", Docs("d2")) :
                 disp = [d \in DispatchIds |-> IF d = "d1" THEN x ELSE y]

JobInit == ControllerIdle /\ DocInputs /\ job = NoJob

\* the record of a pass: its name and argument, the number of update_one
\* calls, the values handed to the reference table as lookup keys, whether
\* the pass before it was the same job, and the update_one calls of that one
Ran(name, arg, W, keys) ==
    LET again == job.name = name /\ job.arg = arg
    IN [name |-> name, arg |-> arg, writes |-> Cardinality(W), keys |-> keys,
        again |-> again, prev |-> IF again THEN job.writes ELSE 0]

\* src/backfill_compromise_date_from_tags.py
BackfillCompromiseDate ==
    LET W == DateWrites(disp, DateQuery(disp))
    IN /\ disp' = Apply(disp, W, "date")
       /\ job' = Ran("backfill_compromise_date_from_tags", "", W, {})
       /\ UNCHANGED <<sub_col, cvars>>

\* src/trash/jobs/backfill_promise_date_from_tags.py, run(route_key)
BackfillCompromiseDateRoute(r) ==
    LET W == DateWrites(disp, DateQueryRoute(disp, r))
    IN /\ disp' = Apply(disp, W, "date")
       /\ job' = Ran("backfill_promise_date_from_tags", r, W, {})
       /\ UNCHANGED <<sub_col, cvars>>

\* src/orchestrator/jobs/backfill_tipo_orden_from_tags.py
BackfillTipoOrden ==
    LET W == CategoryWrites(disp, CategoryQuery(disp))
    IN /\ disp' = Apply(disp, W, "category")
       /\ job' = Ran("jobs.backfill_tipo_orden_from_tags", "", W, {})
       /\ UNCHANGED <<sub_col, cvars>>

\* src/backfill_tipo_orden_from_tags.py
BackfillTipoOrdenRecent ==
    LET W == CategoryWritesRecent(disp, CategoryQueryRecent(disp))
    IN /\ disp' = Apply(disp, W, "category")
       /\ job' = Ran("backfill_tipo_orden_from_tags", "", W, {})
       /\ UNCHANGED <<sub_col, cvars>>

\* src/orchestrator/jobs/get_ct.py
GetCt ==
    LET W == CtWrites(disp, CtQuery(disp))
    IN /\ disp' = Apply(disp, W, "ct")
       /\ job' = Ran("get_ct", "", W, {})
       /\ UNCHANGED <<sub_col, cvars>>

\* src/backfill_ct.py
BackfillCt ==
    LET W == CtWrites(disp, CtQueryRecent(disp))
    IN /\ disp' = Apply(disp, W, "ct")
       /\ job' = Ran("backfill_ct", "", W, {})
       /\ UNCHANGED <<sub_col, cvars>>

\* the lookup keys of a pass over the documents Q
LookupKeys(ds, Q, form) ==
    LET variants(code) == IF form = "get_substatus"
                          THEN get_substatus_code_variants(code)
                          ELSE _code_variants(code)
    IN UNION {variants(ds[d].substatus_code).v :
                d \in {q \in Q : Truthy(variants(ds[q].substatus_code))}}

\* src/backfill_substatus.py
BackfillSubstatus ==
    \E pick \in Lookups(disp, sub_col, "backfill_substatus") :
       LET Q == SubstatusQuery(disp)
           W == SubstatusWrites(disp, Q, pick)
       IN /\ disp' = [d \in DOMAIN disp |->
                        IF d \in W THEN SetTriple(disp[d], pick[d]) ELSE disp[d]]
          /\ job' = Ran("backfill_substatus", "", W, LookupKeys(disp, Q, "backfill_substatus"))
          /\ UNCHANGED <<sub_col, cvars>>

\* src/orchestrator/jobs/get_substatus.py
GetSubstatus ==
    \E pick \in Lookups(disp, sub_col, "get_substatus") :
       LET Q == GetSubstatusQuery(disp)
           W == GetSubstatusWrites(disp, Q, pick)
       IN /\ disp' = [d \in DOMAIN disp |->
                        IF d \in W THEN SetTriple(disp[d], pick[d]) ELSE disp[d]]
          /\ job' = Ran("get_substatus", "", W, LookupKeys(disp, Q, "get_substatus"))
          /\ UNCHANGED <<sub_col, cvars>>

\* get_dispatches refreshes dispatch d1 from the external system: a tag it
\* carries, or its substatus_code, has a new value
Refetch ==
    /\ \/ \E v \in FecValues \ {None} :
            /\ disp["d1"].fecsoldes \notin {None, v}
            /\ disp' = [disp EXCEPT !["d1"].fecsoldes = v]
       \/ \E v \in TipoTags \ {None} :
            /\ disp["d1"].tipo_tag \notin {None, v}
            /\ disp' = [disp EXCEPT !["d1"].tipo_tag = v]
       \/ \E v \in CodcomuValues \ {None} :
            /\ disp["d1"].codcomu \notin {None, v}
            /\ disp' = [disp EXCEPT !["d1"].codcomu = v]
       \/ \E v \in Codes :
            /\ disp["d1"].substatus_code \notin {None, v}
            /\ disp' = [disp EXCEPT !["d1"].substatus_code = v]
    /\ job' = Ran("get_dispatches", "", {}, {})
    /\ UNCHANGED <<sub_col, cvars>>

JobNext ==
    \/ BackfillCompromiseDate
    \/ \E r \in RouteKeys : BackfillCompromiseDateRoute(r)
    \/ BackfillTipoOrden
    \/ BackfillTipoOrdenRecent
    \/ GetCt
    \/ BackfillCt
    \/ BackfillSubstatus
    \/ GetSubstatus
    \/ Refetch

JobSpec == JobInit /\ [][JobNext]_vars

(***************************************************************************)
(* Tag lists.  The tags field of a dispatch is missing, None, a value that *)
(* is not a list, or a list whose elements are dicts with the keys name    *)
(* and value (or Name and Value) or something that is not a dict.  The     *)
(* passes of the top-level date, category and CT jobs read it through      *)
(* their tag extractors; a pass handles its documents in cursor order, d1  *)
(* before d2, and an exception raised for a document ends the pass.        *)
(***************************************************************************)
Raised == [k |-> "raise"]

PyList(s) == [k |-> "list", v |-> s]

Dict(n, v, N, V) == [k |-> "dict", name |-> n, value |-> v, Name |-> N, Value |-> V]

\* dict.get(key): None for a key the dict does not have
Get(x) == IF x = Missing THEN None ELSE x

LowerCase == <<"a", "b", "c", "d", "e", "f", "g", "h", "i", "j", "k", "l", "m",
               "n", "o", "p", "q", "r", "s", "t", "u", "v", "w", "x", "y", "z">>
UpperCase == <<"A", "B", "C", "D", "E", "F", "G", "H", "I", "J", "K", "L", "M",
               "N", "O", "P", "Q", "R", "S", "T", "U", "V", "W", "X", "Y", "Z">>

\* str.upper()
upper(s) ==
    [i \in 1 .. Len(s) |->
        IF \E j \in 1 .. Len(LowerCase) : LowerCase[j] = s[i]
        THEN UpperCase[CHOOSE j \in 1 .. Len(LowerCase) : LowerCase[j] = s[i]]
        ELSE s[i]]

FECSOLDES == <<"F", "E", "C", "S", "O", "L", "D", "E", "S">>
TIPO_ORDEN == <<"T", "I", "P", "O", "_", "O", "R", "D", "E", "N">>
CODCOMU == <<"C", "O", "D", "C", "O", "M", "U">>

\* the least index of the set S of indices, 0 if there is none
FirstIndex(S) == IF S = {} THEN 0 ELSE CHOOSE i \in S : \A j \in S : i <= j

\* extract_fecsoldes / extract_tipo_orden: the value of the first dict whose
\* name is exactly N
extract_by_name(tags, N) ==
    IF tags.k # "list" THEN None
    ELSE LET Hit(tag) == tag.k = "dict" /\ Get(tag.name) = PyStr(N)
             i == FirstIndex({j \in 1 .. Len(tags.v) : Hit(tags.v[j])})
         IN IF i = 0 THEN None ELSE Get(tags.v[i].value)

\* x or y
Or(x, y) == IF Truthy(x) THEN x ELSE y

\* the loop of _extract_codcomu_value: tag.get on an element that is not a
\* dict raises AttributeError; the result is the tag's value (or Value)
CodcomuTag(tags) ==
    IF tags.k # "list" THEN None
    ELSE LET Name(tag) == Or(Get(tag.name), Get(tag.Name))
             Stop(tag) ==
                 \/ tag.k # "dict"
                 \/ /\ Truthy(Name(tag))
                    /\ upper(strip(str(Name(tag)))) = CODCOMU
             i == FirstIndex({j \in 1 .. Len(tags.v) : Stop(tags.v[j])})
         IN IF i = 0 THEN None
            ELSE IF tags.v[i].k # "dict" THEN Raised
            ELSE Or(Get(tags.v[i].value), Get(tags.v[i].Value))

\* what the extractor of step `step` returns for the tags field
Extract(step, tags) ==
    CASE step = "date" -> extract_by_name(Get(tags), FECSOLDES)
      [] step = "category" -> extract_by_name(Get(tags), TIPO_ORDEN)
      [] OTHER ->
            LET value == CodcomuTag(Get(tags))
            IN IF value = Raised THEN Raised
               ELSE _extract_codcomu_value([codcomu |-> value])

\* the values of the tag named N that the steps can use, in two versions
TagValues(N) ==
    CASE N = FECSOLDES -> <<PyStr(<<"2", "0", "2", "5", "1", "2", "0", "1">>),
                            PyStr(<<"2", "0", "2", "5", "1", "2", "0", "2">>)>>
      [] N = TIPO_ORDEN -> <<PyStr(<<"A">>), PyStr(<<"B">>)>>
      [] OTHER -> <<PyStr(<<"c", "1">>), PyStr(<<" ", "c", "1">>)>>

\* elements of a tags list that concern the tag named N: the tag, the tag
\* with its name in lower case, padded with a blank, under the keys Name and
\* Value, without a value, another tag, and an element that is not a dict
TagElements(N) ==
    {Dict(PyStr(N), TagValues(N)[1], Missing, Missing),
     Dict(PyStr([i \in 1 .. Len(N) |->
                   IF \E j \in 1 .. Len(UpperCase) : UpperCase[j] = N[i]
                   THEN LowerCase[CHOOSE j \in 1 .. Len(UpperCase) : UpperCase[j] = N[i]]
                   ELSE N[i]]),
          TagValues(N)[2], Missing, Missing),
     Dict(PyStr(<<" ">> \o N), TagValues(N)[2], Missing, Missing),
     Dict(Missing, Missing, PyStr(N), TagValues(N)[2]),
     Dict(PyStr(N), Missing, Missing, Missing),
     Dict(PyStr(<<"X">>), PyStr(<<"x">>), Missing, Missing),
     PyStr(<<"x">>)}

\* the tags fields of the model: no field, None, not a list, and the lists
\* of at most MaxTags elements
MaxTags == 2

TagFields(N) ==
    {Missing, None, PyStr(<<"x">>)} \cup
    {PyList(s) : s \in UNION {[1 .. n -> TagElements(N)] : n \in 0 .. MaxTags}}

\* a recent dispatch with tags field t on which no step has written yet
TagDoc(d, t) ==
    [tags |-> t, route_key |-> RouteOf(d), stored |-> TRUE, recent |-> TRUE,
     fecsoldes |-> IF Extract("date", t) = Raised THEN None ELSE Extract("date", t),
     tipo_tag |-> IF Extract("category", t) = Raised THEN None ELSE Extract("category", t),
     codcomu |-> IF Extract("ct", t) = Raised THEN None ELSE Extract("ct", t),
     compromise_date_raw |-> Missing, compromise_date |-> Missing,
     tipo_orden |-> Missing, ct |-> None, ct_match_codcomu |-> Missing]

TagInit ==
    /\ ControllerIdle
    /\ sub_col = {}
    /\ job = NoJob
    /\ \E N \in {FECSOLDES, TIPO_ORDEN, CODCOMU} : \E t \in TagFields(N) :
          disp = [d \in DispatchIds |->
                    IF d = "d1" THEN TagDoc(d, t)
                    ELSE TagDoc(d, PyList(<<Dict(PyStr(N), TagValues(N)[1], Missing, Missing)>>))]

\* one pass of the job of step `step` over the documents of its query, in
\* cursor order: the documents before the first one whose extraction raises
\* are handled, the exception ends the pass
TagPass(step) ==
    LET order == <<"d1", "d2">>
        Q == CASE step = "date" -> DateQuery(disp)
               [] step = "category" -> CategoryQueryRecent(disp)
               [] OTHER -> CtQueryRecent(disp)
        stop == FirstIndex({i \in 1 .. Len(order) :
                              order[i] \in Q /\ Extract(step, disp[order[i]].tags) = Raised})
        reached == {order[i] : i \in {j \in 1 .. Len(order) :
                                        order[j] \in Q /\ (stop = 0 \/ j < stop)}}
        W == CASE step = "date" -> DateWrites(disp, reached)
               [] step = "category" -> CategoryWritesRecent(disp, reached)
               [] OTHER -> CtWrites(disp, reached)
    IN /\ disp' = Apply(disp, W, step)
       /\ job' = [name |-> step, raised |-> stop # 0, handled |-> reached,
                  writes |-> Cardinality(W),
                  results |-> [d \in reached |-> Extract(step, disp[d].tags)]]
       /\ UNCHANGED <<sub_col, cvars>>

TagNext == \E step \in {"date", "category", "ct"} : TagPass(step)

TagSpec == TagInit /\ [][TagNext]_vars

(***************************************************************************)
(* The per-route chain of a run over a collection with documents: the run  *)
(* has selected both routes of day 1, each with one dispatch; a dispatch   *)
(* is in the collection already or is inserted by the expansion.           *)
(***************************************************************************)
\* a dispatch of the stored route payload that is not in the collection yet
NewDoc(d) ==
    [BaseDoc(d) EXCEPT !.stored = FALSE, !.ct = Missing,
                       !.tipo_tag = PyStr(<<"A">>), !.codcomu = PyStr(<<"c", "1">>),
                       !.substatus_code = PyInt(1),
                       !.estado_beetrack = Missing, !.estado_guia = Missing,
                       !.cierre = Missing]

ChainInit ==
    /\ clock = StartClock
    /\ ticks = 0
    /\ api = ApiInit(RouteKeys)
    /\ routes = [r \in RouteKeys |->
                   [LegacyDoc(IsoFormat(1), api[r].page)
                       EXCEPT !.has_full_details = TRUE, !.full_raw = "open"]]
    /\ dispatches = [r \in RouteKeys |-> "none"]
    /\ meta = NoMeta
    /\ pc = "selected"
    /\ delta_time_update = 0
    /\ delta_day = 0
    /\ now_utc = StartClock
    /\ logical_today = IsoFormat(Today(StartClock))
    /\ date_page_info = FilterDates(_get_dates_and_pages_for_open_routes(routes),
                                    logical_today)
    /\ date_queue = <<>>
    /\ cur_date = logical_today
    /\ page_queue = <<>>
    /\ route_keys = SelectRoutes(routes, cur_date, delta_time_update, now_utc)
    /\ selected = route_keys
    /\ cur_route = "r1"
    /\ stage = 1
    /\ fetchLog = <<>>
    /\ detailLog = {}
    /\ jobLog = <<>>
    /\ processed = <<>>
    /\ failed = FALSE
    /\ job = NoJob
    /\ \/ DocInputs
       \/ /\ sub_col = {SubRow(PyInt(1))}
          /\ \E S \in SUBSET DispatchIds :
                /\ S # {}
                /\ disp = [d \in DispatchIds |-> IF d \in S THEN NewDoc(d) ELSE BaseDoc(d)]

ChainNext ==
    \/ NextRoute
    \/ \E ok \in BOOLEAN : RunStage(ok)
    \/ Stamp

ChainSpec == ChainInit /\ [][ChainNext]_vars

(***************************************************************************)
(* The Dispatch collections as the document store keeps them: a sequence   *)
(* of documents in insertion order, nothing but update_one(filter, $set,   *)
(* upsert=True) writing to them.  fetch_dispatches.py writes to            *)
(* FRONTERA.DISPATCHES with the filter {"identifier": ...}, the            *)
(* get_dispatches job to dispatchtrack.dispatches with the filter          *)
(* {"dispatch_key": ...}.  disp holds both collections.                    *)
(***************************************************************************)
MaxListing == 2

Identifiers == {PyStr(<<"1">>), PyStr(<<"2">>)}

\* the dispatches the external system can list: an identifier (absent for
\* a malformed entry) and a status
ApiDispatches ==
    [identifier : Identifiers, status : {"pending", "delivered"}]
        \cup {[identifier |-> None, status |-> "pending"]}

Listings == UNION {[1..n -> ApiDispatches] : n \in 1..MaxListing}

\* a filter {field: key} of the document store: null matches a missing field
Matches(doc, field, key) ==
    IF key = None THEN doc[field] \in {None, Missing} ELSE doc[field] = key

\* faulty variant of update_one: insert_one, whatever is stored
update_one_insert(col, field, key, set) ==
    Append(col, [[identifier |-> Missing, dispatch_key |-> Missing, status |-> Missing]
                    EXCEPT ![field] = key, !.status = set.status])

\* update_one(filter, {"$set": set}, upsert=True): the first matching document
\* is updated, and a document is inserted only when none matches
update_one(col, field, key, set) ==
    LET i == FirstIndex({j \in 1..Len(col) : Matches(col[j], field, key)})
        fields == DOMAIN set
        Written(doc) == [f \in DOMAIN doc |-> IF f \in fields THEN set[f] ELSE doc[f]]
    IN  IF i = 0
        THEN Append(col, Written([[identifier |-> Missing, dispatch_key |-> Missing,
                                   status |-> Missing] EXCEPT ![field] = key]))
        ELSE [col EXCEPT ![i] = Written(col[i])]

\* fetch_dispatches.py: save every dispatch of the listing, in order
RECURSIVE save_dispatches(_, _)
save_dispatches(col, listing) ==
    IF listing = <<>> THEN col
    ELSE save_dispatches(
            update_one(col, "identifier", Head(listing).identifier,
                       [identifier |-> Head(listing).identifier,
                        status |-> Head(listing).status]),
            Tail(listing))

_extract_dispatch_key(dispatch) ==
    IF dispatch.identifier = None THEN None ELSE PyStr(str(dispatch.identifier))

\* get_dispatches: upsert every dispatch of a route payload that has a key
RECURSIVE expand_dispatches(_, _)
expand_dispatches(col, listing) ==
    IF listing = <<>> THEN col
    ELSE expand_dispatches(
            IF ~Truthy(_extract_dispatch_key(Head(listing))) THEN col
            ELSE update_one(col, "dispatch_key", _extract_dispatch_key(Head(listing)),
                            [status |-> Head(listing).status]),
            Tail(listing))

StoreInit ==
    /\ ControllerIdle
    /\ sub_col = {}
    /\ disp = [DISPATCHES |-> <<>>, dispatches |-> <<>>]
    /\ job = [name |-> "none", before |-> 0, stored |-> FALSE]

FetchPass(listing) ==
    /\ disp' = [disp EXCEPT !.DISPATCHES = save_dispatches(@, listing)]
    /\ job' = [name |-> "fetch_dispatches", before |-> Len(disp.DISPATCHES),
               stored |-> \E i \in 1..Len(listing), j \in 1..Len(disp.DISPATCHES) :
                             disp.DISPATCHES[j].identifier = listing[i].identifier]
    /\ UNCHANGED <<sub_col, cvars>>

ExpandPass(listing) ==
    /\ disp' = [disp EXCEPT !.dispatches = expand_dispatches(@, listing)]
    /\ job' = [name |-> "get_dispatches", before |-> Len(disp.dispatches),
               stored |-> \E i \in 1..Len(listing), j \in 1..Len(disp.dispatches) :
                             disp.dispatches[j].dispatch_key = _extract_dispatch_key(listing[i])]
    /\ UNCHANGED <<sub_col, cvars>>

StoreNext ==
    \/ \E listing \in Listings : FetchPass(listing)
    \/ \E listing \in Listings : ExpandPass(listing)

StoreSpec == StoreInit /\ [][StoreNext]_vars

(***************************************************************************)
(* normalize_compromise_date (normalize_promise_date in the orchestrator   *)
(* job has the same body) applied to the values a FECSOLDES tag can carry: *)
(* a date in digits, cut short or one digit too long, with one character   *)
(* replaced, blank-padded on either side, and the non-string values.       *)
(* disp holds the input, job the result.                                   *)
(***************************************************************************)
MaxRaw == 9

SomeDigits == <<"2", "0", "2", "5", "1", "2", "3", "1", "9", "4">>

Replaced(s, i, c) == [j \in 1..Len(s) |-> IF j = i THEN c ELSE s[j]]

RawInputs ==
    {None, PyInt(0), PyInt(2025), PyInt(20251231)}
        \cup {PyStr(l \o Replaced(SubSeq(SomeDigits, 1, n), i, c) \o r) :
                 l \in {<<>>, <<" ">>}, r \in {<<>>, <<" ">>}, n \in 0..MaxRaw,
                 i \in 0..MaxRaw, c \in {"x", "-", " ", "7"}}

NormInit ==
    /\ ControllerIdle
    /\ sub_col = {}
    /\ disp \in RawInputs
    /\ job = [name |-> "none", out |-> None]

Normalize ==
    /\ job.name = "none"
    /\ job' = [name |-> "normalize_compromise_date", out |-> normalize_compromise_date(disp)]
    /\ UNCHANGED <<disp, sub_col, cvars>>

NormSpec == NormInit /\ [][Normalize]_vars

(***************************************************************************)
(* One dispatch document written by three passes that overlap: the fetch   *)
(* upsert of fetch_dispatches.py, the CT pass of backfill_ct.py and the    *)
(* sub-status pass of backfill_substatus.py.  A step is one store          *)
(* operation: the upsert, the find that hands a pass its copy of the       *)
(* document, or the update_one the pass issues from that copy.  disp is    *)
(* the document; job holds the copy each pass works on and the last value  *)
(* each pass wrote.                                                        *)
(***************************************************************************)
FetchFields == {"codcomu", "substatus_code"}
CtFields == {"ct", "ct_match_codcomu"}
SubstatusFields == {"estado_beetrack", "estado_guia", "cierre"}

\* faulty variant of set_fields: the document is replaced by the copy
set_fields_replace(doc, fields, src) == src

\* update_one(..., {"$set": ...}): the named fields take the new values and
\* every other field of the stored document stays
set_fields(doc, fields, src) ==
    [f \in DOMAIN doc |-> IF f \in fields THEN src[f] ELSE doc[f]]

Part(doc, fields) == [f \in fields |-> doc[f]]

Idle == [k |-> "idle"]

InterleaveInit ==
    /\ ControllerIdle
    /\ sub_col = {SubRow(PyInt(1))}
    /\ disp = [BaseDoc("d1") EXCEPT !.codcomu = PyStr(<<"c", "1">>)]
    /\ job = [name |-> "passes", ct_doc |-> Idle, sub_doc |-> Idle,
              last |-> [fetch |-> Idle, ct |-> Idle, sub |-> Idle]]

\* save_dispatch_to_mongo: the listing values of the dispatch
FetchUpsert(tag, code) ==
    LET new == set_fields(disp, FetchFields,
                          [disp EXCEPT !.codcomu = tag, !.substatus_code = code])
    IN /\ disp' = new
       /\ job' = [job EXCEPT !.last.fetch = Part(new, FetchFields)]
       /\ UNCHANGED <<sub_col, cvars>>

\* backfill_ct.run: the cursor hands over a document without ct
CtFind ==
    /\ job.ct_doc = Idle
    /\ disp.ct \in {Missing, None}
    /\ job' = [job EXCEPT !.ct_doc = disp]
    /\ UNCHANGED <<disp, sub_col, cvars>>

\* backfill_ct.run: the lookup and the update_one for the document in hand
CtWrite ==
    /\ job.ct_doc # Idle
    /\ IF Truthy(CtValue(job.ct_doc))
       THEN LET new == set_fields(disp, CtFields, CtUpdate(job.ct_doc))
            IN /\ disp' = new
               /\ job' = [job EXCEPT !.ct_doc = Idle, !.last.ct = Part(new, CtFields)]
       ELSE /\ disp' = disp
            /\ job' = [job EXCEPT !.ct_doc = Idle]
    /\ UNCHANGED <<sub_col, cvars>>

\* backfill_substatus.run: the batch query hands over the document
SubstatusFind ==
    /\ job.sub_doc = Idle
    /\ job' = [job EXCEPT !.sub_doc = disp]
    /\ UNCHANGED <<disp, sub_col, cvars>>

\* backfill_substatus.run: the lookup and the update_one for the document
\* in hand
SubstatusWrite ==
    /\ job.sub_doc # Idle
    /\ \E row \in _lookup_substatus(sub_col, job.sub_doc.substatus_code) :
          LET new == set_fields(disp, SubstatusFields, SetTriple(job.sub_doc, row))
          IN /\ disp' = new
             /\ job' = [job EXCEPT !.sub_doc = Idle, !.last.sub = Part(new, SubstatusFields)]
    /\ UNCHANGED <<sub_col, cvars>>

InterleaveNext ==
    \/ \E tag \in {PyStr(<<"c", "1">>), PyStr(<<" ", "c", "1">>), PyStr(<<"c", "9">>)},
          code \in {None, PyInt(1), PyInt(7)} : FetchUpsert(tag, code)
    \/ CtFind
    \/ CtWrite
    \/ SubstatusFind
    \/ SubstatusWrite

InterleaveSpec == InterleaveInit /\ [][InterleaveNext]_vars

(***************************************************************************)
(* orchestrator.py: main registers every job of JOBS with the scheduler,   *)
(* runs the jobs marked run_at_startup in its own thread while doing so,   *)
(* and only then starts the scheduler.  The scheduler is APScheduler's     *)
(* BackgroundScheduler, which the code configures with max_instances = 1   *)
(* and coalesce = True: every run time of a job that has come due is       *)
(* rolled into one submission, and a submission is refused while the job   *)
(* has max_instances instances running.  job holds the state of main and   *)
(* of the scheduler.                                                       *)
(***************************************************************************)
JOBS ==
    << [id |-> "extract_dispatchets", run_at_startup |-> FALSE],
       [id |-> "get_ct", run_at_startup |-> FALSE],
       [id |-> "get_substatus", run_at_startup |-> TRUE] >>

JobIds == {JOBS[i].id : i \in DOMAIN JOBS}

max_instances == 1

\* run times of one job that may be due and not yet processed
MaxDue == 2

\* faulty variant of submit_job: one instance more than configured
submit_job_overlapping(running) == running < max_instances + 1

\* the executor accepts a submission while fewer than max_instances
\* instances of the job are running
submit_job(running) == running < max_instances

SchedulerInit ==
    /\ ControllerIdle
    /\ sub_col = {}
    /\ disp = <<>>
    /\ job = [name |-> "orchestrator", next |-> 1, added |-> {}, startup |-> "none",
              started |-> FALSE,
              due |-> [j \in JobIds |-> 0],
              instances |-> [j \in JobIds |-> 0],
              refused |-> {}]

\* schedule_jobs, one turn of the loop: add_job, and the startup run begins
\* in the calling thread
AddJob ==
    /\ job.next \in DOMAIN JOBS
    /\ job.startup = "none"
    /\ JOBS[job.next].id \notin job.added
    /\ job' = [job EXCEPT !.added = @ \cup {JOBS[job.next].id},
                          !.startup = IF JOBS[job.next].run_at_startup
                                      THEN JOBS[job.next].id ELSE "none",
                          !.next = IF JOBS[job.next].run_at_startup THEN @ ELSE @ + 1]
    /\ UNCHANGED <<disp, sub_col, cvars>>

\* the startup run returns or raises (the exception is logged), and the loop
\* moves on
StartupReturn ==
    /\ job.startup # "none"
    /\ job' = [job EXCEPT !.startup = "none", !.next = @ + 1]
    /\ UNCHANGED <<disp, sub_col, cvars>>

\* main: scheduler.start() after schedule_jobs has returned
SchedulerStart ==
    /\ job.next = Len(JOBS) + 1
    /\ ~job.started
    /\ job' = [job EXCEPT !.started = TRUE]
    /\ UNCHANGED <<disp, sub_col, cvars>>

\* a run time of the trigger of job j passes
TriggerDue(j) ==
    /\ job.started
    /\ j \in job.added
    /\ job.due[j] < MaxDue
    /\ job' = [job EXCEPT !.due[j] = @ + 1]
    /\ UNCHANGED <<disp, sub_col, cvars>>

\* the scheduler wakes up: the due run times of j are coalesced into one
\* submission, which starts an instance or is refused
ProcessJob(j) ==
    /\ job.started
    /\ job.due[j] > 0
    /\ job' = [job EXCEPT !.due[j] = 0,
                          !.instances[j] = IF submit_job(@) THEN @ + 1 ELSE @,
                          !.refused = IF submit_job(job.instances[j]) THEN @ ELSE @ \cup {j}]
    /\ UNCHANGED <<disp, sub_col, cvars>>

\* an instance of j returns
InstanceDone(j) ==
    /\ job.instances[j] > 0
    /\ job' = [job EXCEPT !.instances[j] = @ - 1]
    /\ UNCHANGED <<disp, sub_col, cvars>>

SchedulerNext ==
    \/ AddJob
    \/ StartupReturn
    \/ SchedulerStart
    \/ \E j \in JobIds : TriggerDue(j)
    \/ \E j \in JobIds : ProcessJob(j)
    \/ \E j \in JobIds : InstanceDone(j)

SchedulerSpec == SchedulerInit /\ [][SchedulerNext]_vars

(***************************************************************************)
(* The programs that read DISPATCHTRACK_TOKEN, started with the token set  *)
(* or not set: the script fetch_dispatches.py, which looks at it while it  *)
(* is imported, and the job get_details_from_route, whose client looks at  *)
(* it in _auth_headers, on every request.  job is the process: its         *)
(* position, the routes its cursor still holds, the requests sent, the     *)
(* documents written and the routes whose error the loop has logged.       *)
(***************************************************************************)
Programs == {"fetch_dispatches", "get_details_from_route"}

\* the routes of the date that the store may hold without details
DetailRoutes == {"r1", "r2", "r3"}

ConfigInit ==
    /\ ControllerIdle
    /\ sub_col = {}
    /\ disp = <<>>
    /\ \E name \in Programs, token \in BOOLEAN, todo \in SUBSET DetailRoutes :
          /\ name = "fetch_dispatches" <=> todo = {}
          /\ job = [name |-> name, token |-> token, pc |-> "start", todo |-> todo,
                    requests |-> 0, writes |-> 0, logged |-> {}]

\* fetch_dispatches.py, module level: the token is read and checked before
\* the store client is made
ImportFetchDispatches ==
    /\ job.name = "fetch_dispatches"
    /\ job.pc = "start"
    /\ job' = [job EXCEPT !.pc = IF job.token THEN "main" ELSE "raised"]
    /\ UNCHANGED <<disp, sub_col, cvars>>

\* fetch_dispatches.py, main: the listing is requested and its n dispatches
\* are saved
FetchMain(n) ==
    /\ job.name = "fetch_dispatches"
    /\ job.pc = "main"
    /\ job' = [job EXCEPT !.pc = "exit0", !.requests = @ + 1, !.writes = @ + n]
    /\ UNCHANGED <<disp, sub_col, cvars>>

\* get_details_from_route.run: the query for the routes without details
DetailsStart ==
    /\ job.name = "get_details_from_route"
    /\ job.pc = "start"
    /\ job' = [job EXCEPT !.pc = "loop"]
    /\ UNCHANGED <<disp, sub_col, cvars>>

\* _auth_headers: raises DispatchTrackAPIError when the token is not set
_auth_headers(token) == IF token THEN [k |-> "headers"] ELSE Raised

\* get_details_from_route.run, one turn of the loop: fetch_route_details
\* raises from _auth_headers or from a refused request, and the loop logs
\* the error and goes on; otherwise the route is updated
DetailsRoute(r, refused) ==
    /\ job.name = "get_details_from_route"
    /\ job.pc = "loop"
    /\ r \in job.todo
    /\ IF _auth_headers(job.token) = Raised
       THEN job' = [job EXCEPT !.todo = @ \ {r}, !.logged = @ \cup {r}]
       ELSE IF refused
            THEN job' = [job EXCEPT !.todo = @ \ {r}, !.requests = @ + 1,
                                    !.logged = @ \cup {r}]
            ELSE job' = [job EXCEPT !.todo = @ \ {r}, !.requests = @ + 1,
                                    !.writes = @ + 1]
    /\ UNCHANGED <<disp, sub_col, cvars>>

\* get_details_from_route.run: the cursor is exhausted and run returns
DetailsExit ==
    /\ job.name = "get_details_from_route"
    /\ job.pc = "loop"
    /\ job.todo = {}
    /\ job' = [job EXCEPT !.pc = "exit0"]
    /\ UNCHANGED <<disp, sub_col, cvars>>

ConfigNext ==
    \/ ImportFetchDispatches
    \/ \E n \in 0..2 : FetchMain(n)
    \/ DetailsStart
    \/ \E r \in DetailRoutes, refused \in BOOLEAN : DetailsRoute(r, refused)
    \/ DetailsExit

ConfigSpec == ConfigInit /\ [][ConfigNext]_vars

(***************************************************************************)
(* One CT pass, document by document, with the counters the pass logs when *)
(* it ends (get_ct.run and backfill_ct.run have the same loop; they differ *)
(* in the query).  job holds the cursor, the counters, the branch each     *)
(* scanned document took and the documents as the pass found them.         *)
(***************************************************************************)
\* faulty variant of CtOutcome: the carrier value of the row is not looked at
CtOutcome_any_carrier(doc) ==
    LET external_id == _extract_codcomu_value(doc)
    IN IF ~Truthy(external_id) THEN "no_codcomu"
       ELSE IF {row \in ct_col : row.id = external_id} = {} THEN "not_found"
       ELSE "updated"

\* the branch of the loop body a document takes
CtOutcome(doc) ==
    LET external_id == _extract_codcomu_value(doc)
        M == {row \in ct_col : row.id = external_id}
    IN IF ~Truthy(external_id) THEN "no_codcomu"
       ELSE IF M = {} THEN "not_found"
       ELSE IF ~Truthy((CHOOSE row \in M : TRUE).ct) THEN "not_found"
       ELSE "updated"

\* the $set of the last branch: ct_str and external_id
CtSet(doc) ==
    LET external_id == _extract_codcomu_value(doc)
        row == CHOOSE row \in ct_col : row.id = external_id
    IN [doc EXCEPT !.ct = PyStr(strip(str(row.ct))), !.ct_match_codcomu = external_id]

CtScanned(form, ds) == IF form = "get_ct" THEN CtQuery(ds) ELSE CtQueryRecent(ds)

CounterInit ==
    /\ ControllerIdle
    /\ sub_col = {}
    /\ \E x \in CtDocs("d1"), y \in CtDocs("d2") :
          disp = [d \in DispatchIds |-> IF d = "d1" THEN x ELSE y]
    /\ \E form \in {"get_ct", "backfill_ct"} :
          job = [name |-> "ct_pass", form |-> form, pc |-> "scan",
                 cursor |-> CtScanned(form, disp), before |-> disp,
                 total |-> 0, updated |-> 0, no_codcomu |-> 0, not_found |-> 0,
                 counted |-> [d \in DispatchIds |-> "unseen"]]

\* one turn of the loop
CtStep(d) ==
    LET out == CtOutcome(disp[d])
    IN /\ job.pc = "scan"
       /\ d \in job.cursor
       /\ job' = [job EXCEPT !.cursor = @ \ {d},
                             !.total = @ + 1,
                             !.updated = IF out = "updated" THEN @ + 1 ELSE @,
                             !.no_codcomu = IF out = "no_codcomu" THEN @ + 1 ELSE @,
                             !.not_found = IF out = "not_found" THEN @ + 1 ELSE @,
                             !.counted[d] = out]
       /\ disp' = IF out = "updated" THEN [disp EXCEPT ![d] = CtSet(disp[d])] ELSE disp
       /\ UNCHANGED <<sub_col, cvars>>

\* the cursor is exhausted: the counters are logged
CtDone ==
    /\ job.pc = "scan"
    /\ job.cursor = {}
    /\ job' = [job EXCEPT !.pc = "done"]
    /\ UNCHANGED <<disp, sub_col, cvars>>

CounterNext ==
    \/ \E d \in DispatchIds : CtStep(d)
    \/ CtDone

CounterSpec == CounterInit /\ [][CounterNext]_vars

(***************************************************************************)
(* The batch loop of backfill_substatus.run over the recent dispatches     *)
(* (fix_substatus_as_string.run pages in the same way), with fetch upserts *)
(* going on beside it.  disp maps an _id to whether a document with that   *)
(* _id is stored and whether its sync_timestamp is inside the window; job  *)
(* holds last_id, the batch in hand, how often each document was visited   *)
(* and which documents were inside the window when the pass began.  _ids   *)
(* are the numbers 1..MaxDocs and last_id = 0 stands for None.             *)
(***************************************************************************)
MaxDocs == 4

\* stands for BATCH_SIZE = 1000
BATCH_SIZE == 2

DocIds == 1..MaxDocs

InWindow(ds) == {i \in DocIds : ds[i].stored /\ ds[i].recent}

RECURSIVE Ascending(_)
Ascending(S) ==
    IF S = {} THEN <<>>
    ELSE LET m == CHOOSE x \in S : \A y \in S : x <= y
         IN <<m>> \o Ascending(S \ {m})

Limit(s, n) == IF Len(s) <= n THEN s ELSE SubSeq(s, 1, n)

\* faulty variant of FindBatch: the batch starts at last_id, not after it
FindBatch_from_last(ds, last_id) ==
    Limit(Ascending({i \in InWindow(ds) : i >= last_id}), BATCH_SIZE)

\* find(query).sort("_id", 1).limit(BATCH_SIZE), with _id > last_id once
\* last_id is set
FindBatch(ds, last_id) ==
    Limit(Ascending({i \in InWindow(ds) : i > last_id}), BATCH_SIZE)

BatchInit ==
    /\ ControllerIdle
    /\ sub_col = {}
    /\ disp \in [DocIds -> {[stored |-> FALSE, recent |-> FALSE],
                            [stored |-> TRUE, recent |-> FALSE],
                            [stored |-> TRUE, recent |-> TRUE]}]
    /\ job = [name |-> "backfill_substatus", pc |-> "find", last_id |-> 0, docs |-> <<>>,
              batches |-> 0, visits |-> [i \in DocIds |-> 0], initial |-> InWindow(disp)]

\* the query of one turn of the while loop; an empty batch ends the loop
Find ==
    /\ job.pc = "find"
    /\ LET docs == FindBatch(disp, job.last_id)
       IN job' = [job EXCEPT !.docs = docs,
                             !.batches = IF docs = <<>> THEN @ ELSE @ + 1,
                             !.pc = IF docs = <<>> THEN "done" ELSE "docs"]
    /\ UNCHANGED <<disp, sub_col, cvars>>

\* one document of the batch: last_id moves to it and its update_one is sent
Visit ==
    /\ job.pc = "docs"
    /\ LET d == Head(job.docs)
       IN job' = [job EXCEPT !.last_id = d,
                             !.visits[d] = @ + 1,
                             !.docs = Tail(@),
                             !.pc = IF Tail(job.docs) = <<>> THEN "find" ELSE "docs"]
    /\ UNCHANGED <<disp, sub_col, cvars>>

\* a fetch upsert beside the pass: a new document, or a stored one whose
\* sync_timestamp is renewed
Upsert(i) ==
    /\ job.pc # "done"
    /\ ~(disp[i].stored /\ disp[i].recent)
    /\ disp' = [disp EXCEPT ![i] = [stored |-> TRUE, recent |-> TRUE]]
    /\ UNCHANGED <<job, sub_col, cvars>>

BatchPass == Find \/ Visit

BatchNext ==
    \/ Find
    \/ Visit
    \/ \E i \in DocIds : Upsert(i)

BatchSpec == BatchInit /\ [][BatchNext]_vars

\* the pass is a sequential loop: it takes its next step
BatchLiveSpec == BatchSpec /\ WF_vars(BatchPass)

(***************************************************************************)
(* The two sequential pipelines: run_jobs.main, which runs its commands    *)
(* with subprocess.run(check=True), and run_daily_pipeline.main, which     *)
(* validates --date and then runs the dated jobs and the undated jobs with *)
(* run_job.  job is the pipeline process: the jobs it has started, in      *)
(* order, with the --date argument each got, the job that is running, and  *)
(* the exit codes seen.                                                    *)
(***************************************************************************)
commands ==
    <<"fetch_dispatches", "backfill_compromise_date_from_tags",
      "backfill_tipo_orden_from_tags", "backfill_ct", "backfill_substatus">>

JOBS_WITH_DATE ==
    <<"orchestrator.jobs.get_routes", "orchestrator.jobs.get_details_from_route",
      "orchestrator.jobs.get_dispatches">>

JOBS_NO_DATE ==
    <<"orchestrator.jobs.backfill_tipo_orden_from_tags",
      "orchestrator.jobs.backfill_promise_date_from_tags",
      "orchestrator.jobs.get_ct", "orchestrator.jobs.get_substatus">>

NoDateArg == <<>>

\* the jobs of a pipeline in the order of its loops, each with its --date
JobList(name, date_str) ==
    IF name = "run_jobs"
    THEN [i \in DOMAIN commands |-> [module |-> commands[i], date |-> NoDateArg]]
    ELSE [i \in DOMAIN JOBS_WITH_DATE |-> [module |-> JOBS_WITH_DATE[i], date |-> date_str]]
         \o [i \in DOMAIN JOBS_NO_DATE |-> [module |-> JOBS_NO_DATE[i], date |-> NoDateArg]]

\* validate_date: strptime(date_str, "%Y-%m-%d") on zero-padded input
validate_date(s) ==
    /\ Len(s) = 10
    /\ s[5] = "-" /\ s[8] = "-"
    /\ isdigit(SubSeq(s, 1, 4)) /\ isdigit(SubSeq(s, 6, 7)) /\ isdigit(SubSeq(s, 9, 10))

DateArgs ==
    {<<"2", "0", "2", "5", "-", "1", "2", "-", "0", "1">>,
     <<"2", "0", "2", "5", "-", "1", "2", "-", "0", "2">>,
     <<"2", "0", "2", "5", "-", "1", "2", "-", "0", "3">>,
     <<"2", "0", "2", "5", "1", "2", "0", "1">>,
     <<"t", "o", "d", "a", "y">>}

ExitCodes == {0, 1, 2}

\* faulty variant of run_job: the return code is not looked at
run_job_unchecked(returncode) == "loop"

\* run_job / run_command: a non-zero return code raises out of main
run_job(returncode) == IF returncode # 0 THEN "raised" ELSE "loop"

PipelineInit ==
    /\ ControllerIdle
    /\ sub_col = {}
    /\ disp = <<>>
    /\ \E name \in {"run_jobs", "run_daily_pipeline"}, date_str \in DateArgs :
          /\ name = "run_jobs" => date_str = <<"t", "o", "d", "a", "y">>
          /\ job = [name |-> name, date_str |-> date_str,
                    pc |-> IF name = "run_jobs" THEN "loop" ELSE "args",
                    started |-> <<>>, running |-> FALSE, codes |-> <<>>]

\* run_daily_pipeline.main: parse_args and validate_date
ValidateDate ==
    /\ job.pc = "args"
    /\ job' = [job EXCEPT !.pc = IF validate_date(job.date_str) THEN "loop" ELSE "raised"]
    /\ UNCHANGED <<disp, sub_col, cvars>>

\* the loop hands its next job to subprocess.run, or has none left
StartJob ==
    /\ job.pc = "loop"
    /\ LET list == JobList(job.name, job.date_str)
           k == Len(job.started) + 1
       IN IF k > Len(list)
          THEN job' = [job EXCEPT !.pc = "done"]
          ELSE job' = [job EXCEPT !.pc = "wait", !.running = TRUE,
                                  !.started = Append(@, list[k])]
    /\ UNCHANGED <<disp, sub_col, cvars>>

\* the child exits and subprocess.run returns
JobExit(returncode) ==
    /\ job.pc = "wait"
    /\ job' = [job EXCEPT !.pc = run_job(returncode), !.running = FALSE,
                          !.codes = Append(@, returncode)]
    /\ UNCHANGED <<disp, sub_col, cvars>>

PipelineNext ==
    \/ ValidateDate
    \/ StartJob
    \/ \E returncode \in ExitCodes : JobExit(returncode)

PipelineSpec == PipelineInit /\ [][PipelineNext]_vars




(***************************************************************************)
(* Properties.                                                             *)
(***************************************************************************)
\* the calendar day an ISO string names
DayOf(d) == CHOOSE n \in AllDays : IsoFormat(n) = d

\* the run has resolved its dates and has not started the first one
RunFresh == pc = "date" /\ cur_date = NoDate /\ processed = <<>>

\* the open route documents of date d
OpenOf(d) == {r \in RouteKeys : routes[r].exists /\ ~routes[r].is_closed /\ routes[r].date = d}

\* C1: in step 3c the routes selected for a date are exactly its open routes
\* that, when delta_time_update > 0, carry no last_processed_at or one that
\* is at least delta_time_update hours older than the now of the run.
C1_SelectionGate ==
    pc = "selected" =>
       \A r \in RouteKeys :
          r \in selected <=>
             /\ routes[r].exists
             /\ routes[r].date = cur_date
             /\ ~routes[r].is_closed
             /\ \/ delta_time_update = 0
                \/ routes[r].last_processed_at = Absent
                \/ now_utc - routes[r].last_processed_at >= delta_time_update

\* with delta_time_update = 24 a route stamped 30 hours ago is selected and a
\* route stamped 1 hour ago is not
C1_Witness ==
    /\ pc = "selected"
    /\ delta_time_update = 24
    /\ \E r, q \in OpenOf(cur_date) :
          /\ routes[r].last_processed_at = now_utc - 30
          /\ r \in selected
          /\ routes[q].last_processed_at = now_utc - 1
          /\ q \notin selected

\* C3: a failed stage invocation aborts the run at once: the failing step
\* stamps no route and writes no meta record, and after it nothing is
\* processed, stamped, written or retried until a new run is started.
C3_AbortOnFailure ==
    [][/\ (failed' /\ ~failed) =>
             /\ pc' = "aborted"
             /\ meta' = meta
             /\ \A r \in RouteKeys :
                   routes[r].exists =>
                      routes'[r].last_processed_at = routes[r].last_processed_at
       /\ failed =>
             /\ pc = "aborted"
             /\ UNCHANGED <<routes, dispatches, meta>>
             /\ (pc' # "aborted" => pc' = "date" /\ ~failed')
      ]_vars

\* a run has aborted inside the chain of a route: its dispatches were
\* expanded, the route carries no stamp, and no meta record was ever written
C3_Witness ==
    /\ pc = "aborted"
    /\ failed
    /\ meta = NoMeta
    /\ \E r \in RouteKeys :
          /\ routes[r].exists
          /\ dispatches[r] # "none"
          /\ routes[r].last_processed_at = Absent

\* C4 as stated: the chain runs expand dispatches, date backfill, category
\* backfill, CT match, sub-status match, route-closure check, in this order.
C4_SpecOrder ==
    pc = "stamp" =>
       jobLog = <<"get_dispatches",
                  "backfill_compromise_date_from_tags",
                  "backfill_tipo_orden_from_tags",
                  "get_ct",
                  "get_substatus",
                  "close_route_if_all_dispatches_closed">>

\* C4 amended: for every selected route the stages run in the order expand
\* dispatches, category backfill, date backfill, CT match, sub-status match,
\* route-closure check; at any time the jobs run for the route are a prefix
\* of this list, and the route is stamped after the whole list.
C4_ChainOrder ==
    LET order == <<"get_dispatches",
                   "backfill_tipo_orden_from_tags",
                   "backfill_compromise_date_from_tags",
                   "get_ct",
                   "get_substatus",
                   "close_route_if_all_dispatches_closed">>
    IN /\ pc = "stage" => jobLog = SubSeq(order, 1, Len(jobLog)) /\ Len(jobLog) = stage - 1
       /\ pc \in {"stamp", "stamped"} => jobLog = order

\* the chain of a route has run to its end
C4_Witness == pc = "stamp" /\ Len(jobLog) = 6 /\ ~failed

\* C5: for every date of the tracker output that has open routes,
\* has_missing_page is true iff at least one open route of the date has no
\* recorded page (none, or a value that is no integer), whatever pages the
\* other open routes of the date have.
C5_MissingPage ==
    RunFresh =>
       \A d \in DOMAIN date_page_info :
          OpenOf(d) # {} =>
             (date_page_info[d].has_missing_page <=>
                 \E r \in OpenOf(d) : routes[r].page \in {PageNone, PageBad})

\* a date with a known page and a route without a page is marked
C5_Witness ==
    /\ RunFresh
    /\ \E d \in DOMAIN date_page_info :
          /\ date_page_info[d].has_missing_page
          /\ date_page_info[d].pages # {}
          /\ \E r, q \in OpenOf(d) : routes[r].page = PageNone /\ routes[q].page \in ApiPages

\* C6: the dates of a run are the tracker dates on or before logical today
\* (real today minus delta_day) together with logical today itself; no later
\* date is processed, and the dates are processed one at a time in ascending
\* order.
C6_DatesProcessed ==
    LET lt == Today(now_utc) - delta_day
        expected == {n \in AllDays : n <= lt /\ OpenOf(IsoFormat(n)) # {}} \cup {lt}
        done == [i \in 1 .. Len(processed) |-> DayOf(processed[i])]
        todo == [i \in 1 .. Len(date_queue) |-> DayOf(date_queue[i])]
        order == done \o (IF pc \in {"date", "meta"} \/ cur_date = NoDate
                          THEN <<>> ELSE <<DayOf(cur_date)>>) \o todo
    IN /\ RunFresh => SeqToSet(todo) = expected
       /\ pc \notin BetweenRuns =>
             /\ \A i, j \in 1 .. Len(order) : i < j => order[i] < order[j]
             /\ \A i \in 1 .. Len(order) : order[i] <= lt
             /\ lt \in SeqToSet(order)
             /\ SeqToSet(order) = {DayOf(d) : d \in DOMAIN date_page_info}
       /\ pc = "meta" => date_queue = <<>>

\* a run has processed two dates, the later one being logical today without
\* any open route
C6_Witness ==
    /\ pc = "meta"
    /\ Len(processed) = 2
    /\ processed[2] = logical_today
    /\ OpenOf(logical_today) = {}

\* C8: step 3a of a date issues one full re-scan when has_missing_page holds
\* or no page is known, and otherwise one targeted re-fetch per known page
\* and no fetch of another page.
C8_FetchPlan ==
    LET info == date_page_info[cur_date]
        full == info.has_missing_page \/ info.pages = {}
    IN /\ pc = "details" =>
             IF full THEN fetchLog = <<PageNone>>
             ELSE /\ SeqToSet(fetchLog) = info.pages
                  /\ Len(fetchLog) = Cardinality(info.pages)
       /\ pc = "fetch" =>
             /\ SeqToSet(fetchLog) \subseteq (IF full THEN {PageNone} ELSE info.pages)
             /\ Len(fetchLog) = Cardinality(SeqToSet(fetchLog))
             /\ Len(fetchLog) < (IF full THEN 1 ELSE Cardinality(info.pages))

\* two targeted re-fetches were issued for a date with two known pages
C8_Witness == pc = "details" /\ Len(fetchLog) = 2 /\ PageNone \notin SeqToSet(fetchLog)

\* C10: a route whose chain ran to completion is stamped with the now of its
\* run, closed or not; a stamped route is selected by a run with
\* delta_time_update > 0 only if that run starts at least delta_time_update
\* hours after the stamp.
C10_StampAdvancesGate ==
    /\ pc = "stamped" => routes[cur_route].last_processed_at = now_utc
    /\ (pc = "selected" /\ delta_time_update > 0) =>
          \A r \in selected :
             routes[r].last_processed_at # Absent =>
                routes[r].last_processed_at + delta_time_update <= now_utc

\* a route that the closure check left open was stamped with the now of the
\* run, the wall clock having advanced since
C10_Witness ==
    /\ pc = "stamped"
    /\ ~routes[cur_route].is_closed
    /\ routes[cur_route].last_processed_at = now_utc
    /\ clock > now_utc

\* C12: is_closed of a route changes only in the closure step of the chain
\* run for that route, after the five enrichment stages; last_processed_at
\* changes only in the stamp that follows the whole chain of that route; the
\* listing fetch, the detail refresh and the enrichment stages leave both
\* fields as they are, a new document starts open and unstamped, and no step
\* removes a route document.
C12_RouteFieldsFrame ==
    [][\A r \in RouteKeys :
          /\ routes[r].exists => routes'[r].exists
          /\ (~routes[r].exists /\ routes'[r].exists) =>
                (~routes'[r].is_closed /\ routes'[r].last_processed_at = Absent)
          /\ (routes[r].exists /\ routes'[r].is_closed # routes[r].is_closed) =>
                /\ pc = "stage" /\ cur_route = r
                /\ Chain[stage] = "close_route_if_all_dispatches_closed"
                /\ SeqToSet(jobLog) = {"get_dispatches", "backfill_tipo_orden_from_tags",
                                       "backfill_compromise_date_from_tags", "get_ct",
                                       "get_substatus"}
          /\ (routes[r].exists /\ routes'[r].last_processed_at # routes[r].last_processed_at) =>
                /\ pc = "stamp" /\ cur_route = r
                /\ Len(jobLog) = Len(Chain)
      ]_vars

\* a route closed and stamped by an earlier run has been listed again by the
\* fetch of this run
C12_Witness ==
    /\ pc = "details"
    /\ \E r \in RouteKeys :
          /\ routes[r].exists /\ routes[r].date = cur_date
          /\ routes[r].is_closed
          /\ routes[r].last_processed_at # Absent
          /\ (PageNone \in SeqToSet(fetchLog) \/ api[r].page \in SeqToSet(fetchLog))

\* C13: the step that ends a successful run overwrites the Sync Meta record
\* with the time of the save and the dates processed in the run, in ascending
\* order and without repetition; no other step writes the record.
C13_MetaSaved ==
    [][/\ (pc = "meta" /\ pc' = "done") =>
             /\ meta' = [last_run_utc |-> clock, dates_processed |-> processed]
             /\ SeqToSet(processed) = DOMAIN date_page_info
             /\ \A i, j \in 1 .. Len(processed) :
                   i < j => (StrLeq(processed[i], processed[j]) /\ processed[i] # processed[j])
       /\ meta' # meta => (pc = "meta" /\ pc' = "done")
      ]_vars

\* a run that processed two dates has saved its record, later than the
\* first clock value
C13_Witness ==
    /\ pc = "done"
    /\ Len(meta.dates_processed) = 2
    /\ meta.last_run_utc = clock
    /\ clock > StartClock

\* C7 as stated: the re-fetch issued for logical today brings every route
\* of logical today that the external system holds into the store.
C7_TodayDiscovered ==
    (pc = "details" /\ cur_date = logical_today) =>
       \A r \in RouteKeys :
          (api[r].created /\ IsoFormat(api[r].day) = logical_today) => routes[r].exists

\* C9 as stated: step 3b refreshes the details of every open route of the
\* date, so that the stored payload is the one of the external system.
C9_DetailsRefreshed ==
    pc = "select" =>
       \A r \in OpenOf(cur_date) :
          /\ r \in detailLog
          /\ routes[r].full_raw = fetch_route_details(r)

\* C11 as stated: while the chain of route r runs, every job leaves the
\* dispatch documents of every other route as they are.
C11_ChainScopedToRoute ==
    [][pc = "stage" =>
          \A d \in DOMAIN disp :
             disp[d].route_key # cur_route => disp'[d] = disp[d]]_vars

\* the names under which the two forms of the date backfill are recorded
DateJobs == {"backfill_compromise_date_from_tags", "backfill_promise_date_from_tags"}

\* C14: a pass of the date backfill leaves every dispatch that already has a
\* compromise_date exactly as it is, whatever its FECSOLDES tag now holds.
C14_DateNeverOverwritten ==
    [][job'.name \in DateJobs =>
          \A d \in DOMAIN disp :
             disp[d].compromise_date # Missing => disp'[d] = disp[d]]_vars

\* a pass has run and written the other dispatch, while d1 keeps the earlier
\* date although its tag holds a different valid one
C14_Witness ==
    /\ job.name = "backfill_compromise_date_from_tags"
    /\ job.writes = 1
    /\ disp["d1"].recent
    /\ disp["d1"].compromise_date = OldDate
    /\ normalize_compromise_date(disp["d1"].fecsoldes) \notin {None, OldDate}

\* the names under which the two forms of the category backfill are recorded
CategoryJobs == {"jobs.backfill_tipo_orden_from_tags", "backfill_tipo_orden_from_tags"}

\* C15: a pass of the date backfill, or of the category backfill, that comes
\* right after a pass of the same job performs no write and leaves the
\* dispatch collection as it is.
C15_SecondPassNoWrites ==
    [][(job'.again /\ job'.name \in DateJobs \cup CategoryJobs) =>
          (job'.writes = 0 /\ disp' = disp)]_vars

\* a date pass that wrote a dispatch has been followed by a second one
C15_Witness ==
    /\ job.name = "backfill_compromise_date_from_tags"
    /\ job.again
    /\ job.prev >= 1
    /\ job.writes = 0
    /\ \E d \in DOMAIN disp :
          /\ disp[d].compromise_date \notin {Missing, OldDate}
          /\ disp[d].compromise_date = normalize_compromise_date(disp[d].fecsoldes)

C17_CtNoMatchUntouched ==
    [][job'.name \in {"get_ct", "backfill_ct"} =>
          \A d \in DOMAIN disp :
             LET code == _extract_codcomu_value(disp[d])
             IN /\ (code \in {None, PyStr(<<>>)} \/ \A row \in ct_col : row.id # code) =>
                      disp'[d] = disp[d]
                /\ disp'[d].ct = None => disp[d].ct = None
                /\ disp'[d].ct_match_codcomu = None => disp[d].ct_match_codcomu = None
      ]_vars

\* a pass has matched d2 and has left d1, whose code has no row, without ct
\* and without ct_match_codcomu
C17_Witness ==
    /\ job.name = "get_ct"
    /\ job.writes = 1
    /\ disp["d1"].codcomu = PyStr(<<"c", "9">>)
    /\ disp["d1"].ct = Missing
    /\ disp["d1"].ct_match_codcomu = Missing
    /\ disp["d2"].ct = PyStr(<<"T", "1">>)
    /\ disp["d2"].ct_match_codcomu = PyStr(<<"c", "1">>)

\* the values of substatus_code that are no usable code
UnusableCodes ==
    {None, PyFloat("nan"), PyFloat("inf"), PyFloat("-inf"), PyStr(<<>>), PyStr(<<" ">>),
     PyStr(<<"n", "a", "n">>), PyStr(<<"N", "a", "N">>)}

C19_AnyRepresentationMatches ==
    job.name = "backfill_substatus" =>
       \A d \in DOMAIN disp : \A row \in sub_col :
          (/\ disp[d].stored
           /\ disp[d].recent
           /\ disp[d].substatus_code \in TableCodes
           /\ row.code \in TableCodes) =>
             (/\ disp[d].estado_beetrack = row.eb
              /\ disp[d].estado_guia = row.eg
              /\ disp[d].cierre = row.ci)

\* the set C20 prescribes for code c: nothing for an unusable code, else the
\* trimmed string and, when that is all digits, the integer as well
TrimmedForms(c) ==
    IF c \in UnusableCodes THEN {}
    ELSE {PyStr(strip(str(c)))} \cup
         (IF isdigit(strip(str(c))) THEN {PyInt(int(strip(str(c))))} ELSE {})

RequestedName(step) ==
    CASE step = "date" -> FECSOLDES
      [] step = "category" -> TIPO_ORDEN
      [] OTHER -> CODCOMU

\* the value of the first tag of the list whose trimmed, upper-cased name is
\* N; None for anything that is not a list and for a list without such a tag
FirstMatch(tags, N) ==
    IF tags.k # "list" THEN None
    ELSE LET Hit(tag) == /\ tag.k = "dict"
                         /\ Get(tag.name).k = "str"
                         /\ upper(strip(Get(tag.name).v)) = N
             i == FirstIndex({j \in 1 .. Len(tags.v) : Hit(tags.v[j])})
         IN IF i = 0 THEN None ELSE Get(tags.v[i].value)

\* the tags of the field are {name, value} pairs, as the Dispatch entity has
\* them (no dict spelled with Name and Value)
NameValuePairs(tags) ==
    tags.k = "list" =>
       \A i \in 1 .. Len(tags.v) :
          tags.v[i].k = "dict" => (tags.v[i].Name = Missing /\ tags.v[i].Value = Missing)

\* two extraction results are the same value, blanks around a string aside
SameValue(x, y) ==
    \/ x = y
    \/ x.k = "str" /\ y.k = "str" /\ strip(x.v) = strip(y.v)

\* C21 as stated: what the tag extractor of a pass returns for a dispatch is
\* the value of the first tag whose trimmed, upper-cased name is the
\* requested one, and not-found when there is no such tag, for each of the
\* three extractors.
C21_ExtractFirstMatch ==
    job.name \in {"date", "category", "ct"} =>
       \A d \in job.handled :
          NameValuePairs(Get(disp[d].tags)) =>
             SameValue(job.results[d],
                       FirstMatch(Get(disp[d].tags), RequestedName(job.name)))

\* C22 as stated: no pass of the date, category or CT step is ended by an
\* exception, whatever the tags fields of its documents hold, and every
\* document the pass leaves selected has been handled by it.
C22_MalformedTagsSkipped ==
    job.name \in {"date", "category", "ct"} =>
       /\ ~job.raised
       /\ (CASE job.name = "date" -> DateQuery(disp)
              [] job.name = "category" -> CategoryQueryRecent(disp)
              [] OTHER -> CtQueryRecent(disp)) \subseteq job.handled

\* C23: a non-2xx response to a route-detail request aborts the run (no
\* later route or enrichment stage is executed)
C23_ApiFailureAborts ==
    [][(pc = "details" /\ job'.name = "get_details_from_route" /\ job'.errors # {})
          => pc' = "aborted"]_vars

\* the documents of a collection carry pairwise different values of the
\* key field
UniqueKey(col, field) ==
    \A i, j \in 1..Len(col) : col[i][field] = col[j][field] => i = j

\* C24: after any sequence of fetch and route-expansion passes each Dispatch
\* collection holds at most one document per identifier
C24_OneDocumentPerIdentifier ==
    job.name \in {"fetch_dispatches", "get_dispatches"}
        => /\ UniqueKey(disp.DISPATCHES, "identifier")
           /\ UniqueKey(disp.dispatches, "dispatch_key")

\* a pass met an identifier that was already stored and the collection did
\* not grow
C24_Witness ==
    /\ job.name \in {"fetch_dispatches", "get_dispatches"}
    /\ job.stored
    /\ Len(IF job.name = "fetch_dispatches" THEN disp.DISPATCHES ELSE disp.dispatches)
          = job.before

\* the trimmed text of a raw value, None having none
Trimmed(raw) == IF raw = None THEN <<>> ELSE strip(str(raw))

EightDigits(s) ==
    /\ Len(s) = 8
    /\ \A i \in 1..8 : s[i] \in {"0", "1", "2", "3", "4", "5", "6", "7", "8", "9"}

Dashed(s) == <<s[1], s[2], s[3], s[4], "-", s[5], s[6], "-", s[7], s[8]>>

\* C25: normalize(raw) is the YYYY-MM-DD form of the trimmed input when that
\* is exactly eight digits, and invalid (None) for every other input
C25_NormalizeEightDigits ==
    job.name = "normalize_compromise_date"
        => IF EightDigits(Trimmed(disp))
           THEN job.out = PyStr(Dashed(Trimmed(disp)))
           ELSE job.out = None

\* a blank-padded eight-digit value has been normalised
C25_Witness ==
    /\ job.name = "normalize_compromise_date"
    /\ disp.k = "str"
    /\ Len(disp.v) > 8
    /\ job.out # None

\* C26: a run with delta_time_update = W > 0 completes a pass of a route
\* only if the last run that completed a pass of that route started at least
\* W hours before it (the clock never going back, no two passes of a route
\* are then less than W hours apart)
C26_OnePassPerWindow ==
    [][(pc = "stamp" /\ pc' = "stamped" /\ delta_time_update > 0
           /\ LastPass(job, cur_route) # Absent)
          => now_utc - LastPass(job, cur_route) >= delta_time_update]_vars

\* a route has been taken through a second pass by a run with a staleness
\* window
C26_Witness ==
    /\ pc = "stamped"
    /\ delta_time_update > 0
    /\ job.name = "pass"
    /\ job.again

C28_TrackerOutput ==
    RunFresh =>
       LET out == _get_dates_and_pages_for_open_routes(routes)
       IN /\ DOMAIN out = {routes[r].date :
                              r \in {q \in RouteKeys : routes[q].exists /\ ~routes[q].is_closed}}
          /\ \A d \in DOMAIN out :
                /\ out[d].pages = {routes[r].page : r \in OpenOf(d)} \ {PageNone, PageBad}
                /\ StrLeq(d, logical_today) => date_page_info[d] = out[d]

\* a run starts with a closed route and an open route of the same date on
\* different pages
C28_Witness ==
    /\ RunFresh
    /\ \E r, q \in RouteKeys :
          /\ routes[r].exists /\ routes[r].is_closed
          /\ routes[q].exists /\ ~routes[q].is_closed
          /\ routes[q].date = routes[r].date
          /\ routes[q].page \in ApiPages
          /\ routes[r].page \in ApiPages \ {routes[q].page}
          /\ routes[q].date \in DOMAIN date_page_info

\* C29: a non-empty ct, compromise_date or tipo_orden of a dispatch is left
\* as it is by every later re-fetch and every later enrichment pass
C29_EnrichmentKept ==
    [][\A d \in DispatchIds :
          /\ Truthy(disp[d].ct) => disp'[d].ct = disp[d].ct
          /\ Truthy(disp[d].compromise_date) =>
                disp'[d].compromise_date = disp[d].compromise_date
          /\ Truthy(disp[d].tipo_orden) => disp'[d].tipo_orden = disp[d].tipo_orden]_vars

\* a CT pass has run over a dispatch that keeps the ct of an earlier pass
\* while its CODCOMU tag now maps to another carrier
C29_Witness ==
    /\ job.name \in {"get_ct", "backfill_ct"}
    /\ \E d \in DispatchIds :
          /\ Truthy(disp[d].ct)
          /\ Truthy(CtValue(disp[d]))
          /\ CtValue(disp[d]) # disp[d].ct

\* C30: a dispatch written by the date backfill gets a compromise_date_raw
\* that is a string of exactly eight digits and a compromise_date that is
\* its YYYY-MM-DD form, and a dispatch whose FECSOLDES value is absent or
\* not exactly eight digits is left as it was
C30_DateBackfillWrites ==
    [][job'.name \in DateJobs =>
          \A d \in DispatchIds :
             /\ disp'[d] # disp[d] =>
                   /\ disp'[d].compromise_date_raw.k = "str"
                   /\ EightDigits(disp'[d].compromise_date_raw.v)
                   /\ disp'[d].compromise_date = PyStr(Dashed(disp'[d].compromise_date_raw.v))
             /\ ~(disp[d].fecsoldes.k = "str" /\ EightDigits(disp[d].fecsoldes.v)) =>
                   disp'[d] = disp[d]]_vars

\* the CT rows whose Id Externo is, as a string, the trimmed CODCOMU value of
\* the document
CtRowsOf(doc) ==
    {row \in ct_col : doc.codcomu.k = "str" /\ row.id = PyStr(strip(doc.codcomu.v))}

C32_TimeBasesIndependent ==
    [][/\ (pc \in BetweenRuns /\ pc' = "date") =>
             /\ now_utc' = clock
             /\ SeqToSet(date_queue') =
                   {IsoFormat(n) : n \in {m \in AllDays :
                        /\ m <= Today(clock) - delta_day'
                        /\ OpenOf(IsoFormat(m)) # {}}}
                      \cup {IsoFormat(Today(clock) - delta_day')}
       /\ (pc \notin BetweenRuns /\ pc' \notin BetweenRuns) => now_utc' = now_utc
       /\ (pc = "select" /\ pc' = "selected") =>
             route_keys' = {r \in OpenOf(cur_date) :
                               \/ delta_time_update = 0
                               \/ routes[r].last_processed_at = Absent
                               \/ routes[r].last_processed_at <= now_utc - delta_time_update}
       /\ (pc = "stamp" /\ pc' = "stamped") =>
             routes'[cur_route].last_processed_at = now_utc
      ]_vars

\* a run with delta_day = 1 and a staleness window has selected, on the
\* real clock, a route stamped by an earlier run
C32_Witness ==
    /\ pc = "selected"
    /\ delta_day = 1
    /\ delta_time_update > 0
    /\ \E r \in selected : routes[r].last_processed_at # Absent

\* C33: whatever the order of the store operations of the three passes, the
\* fields of each pass hold the last value that pass wrote
C33_LastWriterPerFieldSet ==
    job.name = "passes" =>
       /\ job.last.fetch # Idle => Part(disp, FetchFields) = job.last.fetch
       /\ job.last.ct # Idle => Part(disp, CtFields) = job.last.ct
       /\ job.last.sub # Idle => Part(disp, SubstatusFields) = job.last.sub

\* the three passes have written, the CT pass from a copy read before the
\* fetch changed the tag and the sub-status pass from a copy read before
\* the fetch changed the code
C33_Witness ==
    /\ job.name = "passes"
    /\ job.last.fetch # Idle /\ job.last.ct # Idle /\ job.last.sub # Idle
    /\ disp.codcomu = PyStr(<<"c", "9">>)
    /\ disp.ct = PyStr(<<"T", "1">>)
    /\ disp.substatus_code = PyInt(7)
    /\ disp.estado_beetrack = PyStr(<<"E">>)

Executing(j) == job.instances[j] + (IF job.startup = j THEN 1 ELSE 0)

\* C34: at most one invocation of a scheduled job executes at any time, and
\* no startup run is in progress once the scheduler has been started
C34_OneInvocationPerJob ==
    job.name = "orchestrator" =>
       /\ \A j \in JobIds : Executing(j) <= 1
       /\ job.started => job.startup = "none"

\* a firing of get_substatus was refused while its instance was running,
\* after its startup run
C34_Witness ==
    /\ job.name = "orchestrator"
    /\ job.started
    /\ job.instances["get_substatus"] = 1
    /\ "get_substatus" \in job.refused

\* C35 as stated: without the token a program never returns normally, sends
\* no request and writes no document, and no loop logs the error as the
\* error of one route
C35_MissingTokenIsFatal ==
    (job.name \in Programs /\ ~job.token) =>
       /\ job.pc # "exit0"
       /\ job.requests = 0
       /\ job.writes = 0
       /\ job.logged = {}

Closed(rs, r) == rs[r].exists /\ rs[r].is_closed

WithoutClosed(rs) == [q \in RouteKeys |-> IF Closed(rs, q) THEN NoDoc ELSE rs[q]]

\* C36: a closed route stays closed through every step; it is not among the
\* routes selected for the per-route pipeline and the pipeline is not started
\* for it; and the Route State Tracker output a run starts from is the one
\* the store would give without its closed routes
C36_ClosedIsFinal ==
    [][/\ \A r \in RouteKeys : Closed(routes, r) => Closed(routes', r)
       /\ \A r \in RouteKeys : Closed(routes', r) => r \notin route_keys'
       /\ (pc \in {"selected", "stamped"} /\ pc' = "stage") => ~Closed(routes, cur_route')
       /\ (pc \in BetweenRuns /\ pc' = "date") =>
             date_page_info' = FilterDates(
                 _get_dates_and_pages_for_open_routes(WithoutClosed(routes)), logical_today')
      ]_vars

\* a closed route of the date has been listed again by the fetch of a later
\* run, next to an open route of the same date
C36_Witness ==
    /\ pc = "details"
    /\ OpenOf(cur_date) # {}
    /\ \E r \in RouteKeys :
          /\ Closed(routes, r)
          /\ routes[r].date = cur_date
          /\ (PageNone \in SeqToSet(fetchLog) \/ api[r].page \in SeqToSet(fetchLog))

CountedAs(out) == {d \in DispatchIds : job.counted[d] = out}

EmptyCarrier(doc) ==
    \E row \in ct_col : row.id = _extract_codcomu_value(doc) /\ ~Truthy(row.ct)

\* C37: the three counters of a CT pass add up to total; every scanned
\* document is counted in exactly one of them; the documents the pass has
\* changed are as many as updated; a document whose mapping row has an empty
\* carrier value is counted as not found and is left as it was; and at the end
\* the scanned documents are the ones the query selected
C37_CountersPartition ==
    job.name = "ct_pass" =>
       LET scanned == DispatchIds \ CountedAs("unseen")
       IN /\ job.total = job.updated + job.no_codcomu + job.not_found
          /\ job.total = Cardinality(scanned)
          /\ job.updated = Cardinality(CountedAs("updated"))
          /\ job.no_codcomu = Cardinality(CountedAs("no_codcomu"))
          /\ job.not_found = Cardinality(CountedAs("not_found"))
          /\ job.updated = Cardinality({d \in DispatchIds : disp[d] # job.before[d]})
          /\ \A d \in scanned : EmptyCarrier(job.before[d]) =>
                job.counted[d] = "not_found" /\ disp[d] = job.before[d]
          /\ job.pc = "done" => scanned = CtScanned(job.form, job.before)

\* a pass has ended with one document updated and one, whose mapping row has
\* an empty carrier value, counted as not found
C37_Witness ==
    /\ job.name = "ct_pass"
    /\ job.pc = "done"
    /\ job.total = 2 /\ job.updated = 1 /\ job.not_found = 1
    /\ \E d \in DispatchIds : EmptyCarrier(job.before[d])

\* C38: the batch loop ends; no document is visited twice; last_id only
\* grows; and when the loop has ended every document that was inside the
\* window from the start of the pass has been visited once
C38_BatchLoop ==
    /\ [](\A i \in DocIds : job.visits[i] <= 1)
    /\ [](job.pc = "done" => \A i \in job.initial : job.visits[i] = 1)
    /\ [][job'.last_id # job.last_id => job'.last_id > job.last_id]_vars
    /\ <>(job.pc = "done")

\* a pass over three documents has ended after two batches, one more
\* document having come into the window meanwhile
C38_Witness ==
    /\ job.name = "backfill_substatus"
    /\ job.pc = "done"
    /\ job.batches = 2
    /\ Cardinality(job.initial) = 3
    /\ InWindow(disp) # job.initial

\* C39: the jobs a pipeline has started are a prefix of its list, in order,
\* the dated jobs with the validated --date and the undated ones without;
\* every job before the last started one exited with code 0; a job is
\* running only while the pipeline waits for it; and after a non-zero exit
\* or an invalid --date nothing more is started
C39_PrefixInOrder ==
    [][job.name \in {"run_jobs", "run_daily_pipeline"} =>
          LET list == JobList(job.name, job.date_str)
              n == Len(job'.started)
          IN /\ n <= Len(list)
             /\ job'.started = SubSeq(list, 1, n)
             /\ \A i \in 1..n : (job'.started[i].date # NoDateArg) =>
                                   (job.name = "run_daily_pipeline" /\ i <= Len(JOBS_WITH_DATE)
                                    /\ validate_date(job'.started[i].date))
             /\ \A i \in 1..(n - 1) : job'.codes[i] = 0
             /\ job'.running <=> (job'.pc = "wait")
             /\ Len(job'.codes) = IF job'.running THEN n - 1 ELSE n
             /\ job.pc = "raised" => job' = job
             /\ (job'.pc = "raised" /\ n > 0) => job'.codes[n] # 0
             /\ job'.pc = "done" => (n = Len(list) /\ \A i \in 1..n : job'.codes[i] = 0)
      ]_vars

\* the daily pipeline has stopped at its first undated job, which exited
\* non-zero after the three dated jobs had exited with 0
C39_Witness ==
    /\ job.name = "run_daily_pipeline"
    /\ job.pc = "raised"
    /\ Len(job.started) = Len(JOBS_WITH_DATE) + 1
    /\ job.codes = <<0, 0, 0, 2>>

\* C2 as stated: under fairness every stored route whose dispatches are all
\* terminal in the external system from some point on is eventually closed
\* for good, and a closed route is never selected again.
C2_EventuallyClosed ==
    \A r \in RouteKeys :
       /\ (<>[](routes[r].exists /\ api[r].terminal))
             => <>[](routes[r].exists /\ routes[r].is_closed)
       /\ []((routes[r].exists /\ routes[r].is_closed) => r \notin route_keys)

====
